---- MODULE Spec2Model ----
(***************************************************************************)
(* IPTV_STATS: the in-memory session registry and per-minute statistics    *)
(* accumulator (app/sessions.py), the aggregation / backup / restore jobs  *)
(* (app/aggregator.py) and the application lifecycle (app/main.py).        *)
(*                                                                         *)
(* Conventions.  A raw event payload is a record; a field that is absent,  *)
(* None or empty in the JSON payload is "" for a string field and 0 for a  *)
(* numeric one: the code reads them with `x or default` and `if closed_at`,*)
(* which treat all falsy values alike.                                     *)
(***************************************************************************)
EXTENDS Integers, FiniteSets, Sequences, TLC

(***************************************************************************)
(* Bounds of the model.                                                    *)
(***************************************************************************)
\* start/close events applied between two resets of the minute window
MaxWindowEvents == 3

(***************************************************************************)
(* Inputs: the payloads the event source may send.                         *)
(***************************************************************************)
Ids == {"s1", "s2"}

\* the part of a payload that describes where an event comes from
Sources ==
  { [server |-> "a", media |-> "c1", user_id |-> "u1", country |-> "",
     proto |-> "", user_agent |-> "Android App"],
    [server |-> "b", media |-> "c1", user_id |-> "", country |-> "DE",
     proto |-> "hls", user_agent |-> ""] }

StartBytes == {0, 100}
CloseBytes == {50}
OpenedAts  == {1000}
\* 0: no closed_at in the payload
ClosedAts  == {0, 500, 1500}

Payload(id, src, bytes, opened_at, closed_at) ==
  [id |-> id, server |-> src.server, media |-> src.media,
   user_id |-> src.user_id, country |-> src.country, proto |-> src.proto,
   user_agent |-> src.user_agent, bytes |-> bytes,
   opened_at |-> opened_at, closed_at |-> closed_at]

StartEvents ==
  { Payload(id, src, b, o, 0) :
      id \in Ids, src \in Sources, b \in StartBytes, o \in OpenedAts }

CloseEvents ==
  { Payload(id, src, b, 1000, c) :
      id \in Ids, src \in Sources, b \in CloseBytes, c \in ClosedAts }

(***************************************************************************)
(* app/classifier.py                                                       *)
(***************************************************************************)
\* classify_user_agent on the user agents of Sources: "" is falsy and gives
\* "other"; "Android App" is first matched by the pattern /Android/i.
classify_user_agent(user_agent) ==
  CASE user_agent = "" -> "other"
    [] user_agent = "Android App" -> "android"
    [] OTHER -> "other"

\* the cache stores classify_user_agent's own result for the exact string
classify_user_agent_cached(user_agent) == classify_user_agent(user_agent)

(***************************************************************************)
(* app/sessions.py: data                                                   *)
(***************************************************************************)
\* Python's `x or default`
OrDefault(x, default) == IF x = "" THEN default ELSE x

\* Session(...) as session_started builds it; updated_at is the wall clock
\* of construction, abstracted to the kind of moment that set it
NewSession(event_data) ==
  [id |-> event_data.id,
   server |-> event_data.server,
   media |-> event_data.media,
   user_id |-> OrDefault(event_data.user_id, event_data.id),
   country |-> OrDefault(event_data.country, "XX"),
   proto |-> OrDefault(event_data.proto, "unknown"),
   user_agent_class |-> classify_user_agent_cached(event_data.user_agent),
   bytes |-> event_data.bytes,
   opened_at |-> event_data.opened_at,
   updated_at |-> "event"]

\* DimensionStats.__init__
NewDimensionStats ==
  [started |-> 0, closed |-> 0, bytes |-> 0, watch_time_ms |-> 0,
   unique_users |-> {}, peak_concurrent |-> 0]

\* a slip of add_started: the user is not recorded
add_startedNoUser(stats, user_id) ==
  [stats EXCEPT !.started = @ + 1]

\* DimensionStats.add_started
add_started(stats, user_id) ==
  [stats EXCEPT !.started = @ + 1, !.unique_users = @ \cup {user_id}]

\* DimensionStats.add_closed
add_closed(stats, user_id, bytes_delta, watch_time_ms) ==
  [stats EXCEPT !.closed = @ + 1, !.bytes = @ + bytes_delta,
                !.watch_time_ms = @ + watch_time_ms,
                !.unique_users = @ \cup {user_id}]

\* a slip of the assignment: dict.setdefault, the first value is kept
DictPutIfAbsent(d, key, val) ==
  [k \in DOMAIN d \cup {key} |-> IF k \in DOMAIN d THEN d[k] ELSE val]

\* a dict with one key set (inserted or overwritten)
DictPut(d, key, val) ==
  [k \in DOMAIN d \cup {key} |-> IF k = key THEN val ELSE d[k]]

\* dict.pop(key): the dict without the key
\* a slip of the pop: the entry stays
DictDelKeeping(d, key) == d

DictDel(d, key) == [k \in DOMAIN d \ {key} |-> d[k]]

EmptyDict == [k \in {} |-> 0]

\* _get_dimension_stats: the accumulator of key, created on first touch
get_dimension_stats(dimension_dict, key) ==
  IF key \in DOMAIN dimension_dict THEN dimension_dict[key]
  ELSE NewDimensionStats

\* _get_dimension_stats(d, key).add_started(user_id), as the dict it leaves
DimStarted(dimension_dict, key, user_id) ==
  DictPut(dimension_dict, key,
          add_started(get_dimension_stats(dimension_dict, key), user_id))

\* _get_dimension_stats(d, key).add_closed(...), as the dict it leaves
DimClosed(dimension_dict, key, user_id, bytes_delta, watch_time_ms) ==
  DictPut(dimension_dict, key,
          add_closed(get_dimension_stats(dimension_dict, key),
                     user_id, bytes_delta, watch_time_ms))

\* ActiveSessionsManager.__init__
NewManager ==
  [sessions |-> EmptyDict,
   minute_started |-> 0, minute_closed |-> 0, minute_bytes |-> 0,
   minute_watch_time_ms |-> 0, minute_unique_users |-> {},
   minute_peak_concurrent |-> 0,
   minute_by_server |-> EmptyDict, minute_by_channel |-> EmptyDict,
   minute_by_country |-> EmptyDict, minute_by_protocol |-> EmptyDict,
   minute_by_user_agent |-> EmptyDict]

\* len(dict)
Size(d) == Cardinality(DOMAIN d)

Max(a, b) == IF a > b THEN a ELSE b

(***************************************************************************)
(* app/sessions.py: ActiveSessionsManager                                  *)
(***************************************************************************)
\* a slip of session_started: the peak is not raised
SessionStartedGlobalNoPeak(m, session) ==
  [m EXCEPT
     !.sessions = DictPut(@, session.id, session),
     !.minute_started = @ + 1,
     !.minute_unique_users = @ \cup {session.user_id}]

\* a slip of session_started: the size is taken before the insertion
SessionStartedGlobalPeakBefore(m, session) ==
  LET sessions == DictPut(m.sessions, session.id, session)
      current_concurrent == Size(m.sessions)
  IN [m EXCEPT
        !.sessions = sessions,
        !.minute_started = @ + 1,
        !.minute_unique_users = @ \cup {session.user_id},
        !.minute_peak_concurrent =
           IF current_concurrent > @ THEN current_concurrent ELSE @]

\* session_started, lines 67-76: the registry and the global counters
SessionStartedGlobal(m, session) ==
  LET sessions == DictPut(m.sessions, session.id, session)
      current_concurrent == Size(sessions)
  IN [m EXCEPT
        !.sessions = sessions,
        !.minute_started = @ + 1,
        !.minute_unique_users = @ \cup {session.user_id},
        !.minute_peak_concurrent =
           IF current_concurrent > @ THEN current_concurrent ELSE @]

\* session_started, lines 79-83: one accumulator per dimension
SessionStartedDims(m, session) ==
  [m EXCEPT
     !.minute_by_server = DimStarted(@, session.server, session.user_id),
     !.minute_by_channel = DimStarted(@, session.media, session.user_id),
     !.minute_by_country = DimStarted(@, session.country, session.user_id),
     !.minute_by_protocol = DimStarted(@, session.proto, session.user_id),
     !.minute_by_user_agent =
        DimStarted(@, session.user_agent_class, session.user_id)]

\* session_started: the whole critical section
SessionStarted(m, event_data) ==
  LET session == NewSession(event_data)
  IN SessionStartedDims(SessionStartedGlobal(m, session), session)

\* a slip of the matched close: the server is read from the close event
MatchedCloseEventServer(session, event_data) ==
  [found |-> TRUE,
   user_id |-> session.user_id,
   bytes |-> event_data.bytes - session.bytes,
   watch_time_ms |->
     IF event_data.closed_at # 0
     THEN event_data.closed_at - session.opened_at ELSE 0,
   server |-> event_data.server,
   media |-> session.media,
   country |-> session.country,
   proto |-> session.proto,
   user_agent_class |-> session.user_agent_class]

\* session_closed, lines 92-97 and 103-110: what a close of a session found
\* in the registry attributes, and to which dimension values
MatchedClose(session, event_data) ==
  LET closed_at == event_data.closed_at
      watch_time_ms ==
        IF closed_at # 0 THEN closed_at - session.opened_at ELSE 0
      final_bytes == event_data.bytes
      bytes_delta == final_bytes - session.bytes
  IN [found |-> TRUE,
      user_id |-> session.user_id,
      bytes |-> bytes_delta,
      watch_time_ms |-> watch_time_ms,
      server |-> session.server,
      media |-> session.media,
      country |-> session.country,
      proto |-> session.proto,
      user_agent_class |-> session.user_agent_class]

\* a slip of the unmatched close: the dimensions get the event's bytes, the
\* country is not defaulted
UnmatchedCloseNoDefault(event_data) ==
  [found |-> FALSE,
   user_id |-> OrDefault(event_data.user_id, event_data.id),
   bytes |-> event_data.bytes,
   watch_time_ms |-> 0,
   server |-> event_data.server,
   media |-> event_data.media,
   country |-> event_data.country,
   proto |-> OrDefault(event_data.proto, "unknown"),
   user_agent_class |-> classify_user_agent_cached(event_data.user_agent)]

\* session_closed, lines 113-127: what a close of an unknown id attributes
UnmatchedClose(event_data) ==
  [found |-> FALSE,
   user_id |-> OrDefault(event_data.user_id, event_data.id),
   bytes |-> event_data.bytes,
   watch_time_ms |-> 0,
   server |-> event_data.server,
   media |-> event_data.media,
   country |-> OrDefault(event_data.country, "XX"),
   proto |-> OrDefault(event_data.proto, "unknown"),
   user_agent_class |-> classify_user_agent_cached(event_data.user_agent)]

\* session_closed, lines 90-92 and 111: the branch taken
CloseAttribution(m, event_data) ==
  IF event_data.id \in DOMAIN m.sessions
  THEN MatchedClose(m.sessions[event_data.id], event_data)
  ELSE UnmatchedClose(event_data)

\* session_closed, lines 90, 100-103 and 118-120: the pop and the global
\* counters
SessionClosedGlobal(m, event_data, attr) ==
  [m EXCEPT
     !.sessions = DictDel(@, event_data.id),
     !.minute_closed = @ + 1,
     !.minute_bytes = @ + attr.bytes,
     !.minute_watch_time_ms = @ + attr.watch_time_ms,
     !.minute_unique_users = @ \cup {attr.user_id}]

\* a slip of session_closed: the country line updates the protocol map again
SessionClosedDimsSlip(m, attr) ==
  [m EXCEPT
     !.minute_by_server =
        DimClosed(@, attr.server, attr.user_id, attr.bytes, attr.watch_time_ms),
     !.minute_by_channel =
        DimClosed(@, attr.media, attr.user_id, attr.bytes, attr.watch_time_ms),
     !.minute_by_protocol =
        DimClosed(DimClosed(@, attr.country, attr.user_id, attr.bytes,
                            attr.watch_time_ms),
                  attr.proto, attr.user_id, attr.bytes, attr.watch_time_ms),
     !.minute_by_user_agent =
        DimClosed(@, attr.user_agent_class, attr.user_id, attr.bytes,
                  attr.watch_time_ms)]

\* session_closed, lines 106-110 and 123-127: one accumulator per dimension
SessionClosedDims(m, attr) ==
  [m EXCEPT
     !.minute_by_server =
        DimClosed(@, attr.server, attr.user_id, attr.bytes, attr.watch_time_ms),
     !.minute_by_channel =
        DimClosed(@, attr.media, attr.user_id, attr.bytes, attr.watch_time_ms),
     !.minute_by_country =
        DimClosed(@, attr.country, attr.user_id, attr.bytes, attr.watch_time_ms),
     !.minute_by_protocol =
        DimClosed(@, attr.proto, attr.user_id, attr.bytes, attr.watch_time_ms),
     !.minute_by_user_agent =
        DimClosed(@, attr.user_agent_class, attr.user_id, attr.bytes,
                  attr.watch_time_ms)]

\* session_closed: the whole critical section
SessionClosed(m, event_data) ==
  LET attr == CloseAttribution(m, event_data)
  IN SessionClosedDims(SessionClosedGlobal(m, event_data, attr), attr)

\* a slip of the live counts: a value is marked present, its sessions are
\* not counted
ConcurrentByPresence(sessions, attribute) ==
  LET keys == { sessions[id][attribute] : id \in DOMAIN sessions }
  IN [k \in keys |-> 1]

\* get_and_reset_minute_stats, lines 136-147: sessions per value of one
\* attribute
ConcurrentBy(sessions, attribute) ==
  LET keys == { sessions[id][attribute] : id \in DOMAIN sessions }
  IN [k \in keys |->
        Cardinality({ id \in DOMAIN sessions : sessions[id][attribute] = k })]

\* a slip of _finalize_dimension_stats: only the accumulators' keys get a row
finalize_dimension_statsAccOnly(dimension_dict, concurrent) ==
  [key \in DOMAIN dimension_dict |->
     LET stats == dimension_dict[key]
         live == IF key \in DOMAIN concurrent THEN concurrent[key] ELSE 0
     IN [sessions_started |-> stats.started,
         sessions_closed |-> stats.closed,
         total_bytes |-> stats.bytes,
         watch_time_seconds |-> stats.watch_time_ms \div 1000,
         unique_users |-> Cardinality(stats.unique_users),
         peak_concurrent |-> Max(stats.peak_concurrent, live)]]

\* _finalize_dimension_stats
finalize_dimension_stats(dimension_dict, concurrent) ==
  LET all_keys == DOMAIN dimension_dict \cup DOMAIN concurrent
  IN [key \in all_keys |->
        LET stats == IF key \in DOMAIN dimension_dict
                     THEN dimension_dict[key] ELSE NewDimensionStats
            live == IF key \in DOMAIN concurrent THEN concurrent[key] ELSE 0
        IN [sessions_started |-> stats.started,
            sessions_closed |-> stats.closed,
            total_bytes |-> stats.bytes,
            watch_time_seconds |-> stats.watch_time_ms \div 1000,
            unique_users |-> Cardinality(stats.unique_users),
            peak_concurrent |-> Max(stats.peak_concurrent, live)]]

\* a slip of the result: the global watch time is rounded to the nearest
\* second
MinuteStatsRounding(m) ==
  [global |->
     [sessions_started |-> m.minute_started,
      sessions_closed |-> m.minute_closed,
      total_bytes |-> m.minute_bytes,
      watch_time_seconds |-> (m.minute_watch_time_ms + 500) \div 1000,
      unique_users |-> Cardinality(m.minute_unique_users),
      peak_concurrent |-> m.minute_peak_concurrent,
      current_concurrent |-> Size(m.sessions)],
   by_server |->
     finalize_dimension_stats(m.minute_by_server,
                              ConcurrentBy(m.sessions, "server")),
   by_channel |->
     finalize_dimension_stats(m.minute_by_channel,
                              ConcurrentBy(m.sessions, "media")),
   by_country |->
     finalize_dimension_stats(m.minute_by_country,
                              ConcurrentBy(m.sessions, "country")),
   by_protocol |->
     finalize_dimension_stats(m.minute_by_protocol,
                              ConcurrentBy(m.sessions, "proto")),
   by_user_agent |->
     finalize_dimension_stats(m.minute_by_user_agent,
                              ConcurrentBy(m.sessions, "user_agent_class"))]

\* get_and_reset_minute_stats, lines 136-164: the result
MinuteStats(m) ==
  [global |->
     [sessions_started |-> m.minute_started,
      sessions_closed |-> m.minute_closed,
      total_bytes |-> m.minute_bytes,
      watch_time_seconds |-> m.minute_watch_time_ms \div 1000,
      unique_users |-> Cardinality(m.minute_unique_users),
      peak_concurrent |-> m.minute_peak_concurrent,
      current_concurrent |-> Size(m.sessions)],
   by_server |->
     finalize_dimension_stats(m.minute_by_server,
                              ConcurrentBy(m.sessions, "server")),
   by_channel |->
     finalize_dimension_stats(m.minute_by_channel,
                              ConcurrentBy(m.sessions, "media")),
   by_country |->
     finalize_dimension_stats(m.minute_by_country,
                              ConcurrentBy(m.sessions, "country")),
   by_protocol |->
     finalize_dimension_stats(m.minute_by_protocol,
                              ConcurrentBy(m.sessions, "proto")),
   by_user_agent |->
     finalize_dimension_stats(m.minute_by_user_agent,
                              ConcurrentBy(m.sessions, "user_agent_class"))]

\* a slip of the reset: the peak restarts from zero, not from the registry
ResetMinutePeakZero(m) ==
  [m EXCEPT
     !.minute_started = 0, !.minute_closed = 0, !.minute_bytes = 0,
     !.minute_watch_time_ms = 0, !.minute_unique_users = {},
     !.minute_peak_concurrent = 0,
     !.minute_by_server = EmptyDict, !.minute_by_channel = EmptyDict,
     !.minute_by_country = EmptyDict, !.minute_by_protocol = EmptyDict,
     !.minute_by_user_agent = EmptyDict]

\* get_and_reset_minute_stats, lines 167-177: the reset
ResetMinute(m) ==
  [m EXCEPT
     !.minute_started = 0, !.minute_closed = 0, !.minute_bytes = 0,
     !.minute_watch_time_ms = 0, !.minute_unique_users = {},
     !.minute_peak_concurrent = Size(m.sessions),
     !.minute_by_server = EmptyDict, !.minute_by_channel = EmptyDict,
     !.minute_by_country = EmptyDict, !.minute_by_protocol = EmptyDict,
     !.minute_by_user_agent = EmptyDict]

\* get_and_reset_minute_stats: the whole critical section
GetAndResetMinuteStats(m) ==
  [stats |-> MinuteStats(m), mgr |-> ResetMinute(m)]

\* a slip of get_all_sessions: the read also resets the minute window
GetAllSessionsResetting(m) ==
  [sessions |-> { m.sessions[id] : id \in DOMAIN m.sessions },
   mgr |-> ResetMinute(m)]

\* get_all_sessions: the list returned (as the set of its sessions) and the
\* manager it leaves
GetAllSessions(m) ==
  [sessions |-> { m.sessions[id] : id \in DOMAIN m.sessions }, mgr |-> m]

\* restore_sessions, lines 189-190: the loop that inserts the sessions
RestoreInsert(m, sessions) ==
  [m EXCEPT !.sessions =
     [id \in DOMAIN m.sessions \cup { s.id : s \in sessions } |->
        IF \E s \in sessions : s.id = id
        THEN CHOOSE s \in sessions : s.id = id
        ELSE m.sessions[id]]]

\* restore_sessions, line 191: the peak counter takes the registry size
RestorePeak(m) ==
  [m EXCEPT !.minute_peak_concurrent = Size(m.sessions)]

\* a slip of restore_sessions: the peak counter is not seeded
RestoreSessionsNoPeak(m, sessions) ==
  [m EXCEPT !.sessions =
     [id \in DOMAIN m.sessions \cup { s.id : s \in sessions } |->
        IF \E s \in sessions : s.id = id
        THEN CHOOSE s \in sessions : s.id = id
        ELSE m.sessions[id]]]

\* restore_sessions; the restored sessions have pairwise distinct ids (they
\* are rows of a table whose primary key is id)
RestoreSessions(m, sessions) ==
  LET restored ==
        [id \in DOMAIN m.sessions \cup { s.id : s \in sessions } |->
           IF \E s \in sessions : s.id = id
           THEN CHOOSE s \in sessions : s.id = id
           ELSE m.sessions[id]]
  IN [m EXCEPT !.sessions = restored,
               !.minute_peak_concurrent = Size(restored)]

(***************************************************************************)
(* app/aggregator.py and app/models.py: the durable store                  *)
(***************************************************************************)
\* a slip of the row: the bytes column is left to its default
ToRowNoBytes(session) ==
  [id |-> session.id,
   server |-> session.server,
   media |-> session.media,
   user_id |-> session.user_id,
   country |-> session.country,
   proto |-> session.proto,
   user_agent_class |-> session.user_agent_class,
   bytes |-> 0,
   opened_at |-> session.opened_at,
   updated_at |-> "sync"]

\* sync_active_sessions, lines 139-150: the active_sessions row of a session;
\* updated_at is the wall clock of the sync
ToRow(session) ==
  [id |-> session.id,
   server |-> session.server,
   media |-> session.media,
   user_id |-> session.user_id,
   country |-> session.country,
   proto |-> session.proto,
   user_agent_class |-> session.user_agent_class,
   bytes |-> session.bytes,
   opened_at |-> session.opened_at,
   updated_at |-> "sync"]

\* restore_active_sessions, lines 171-185: the Session of a row
FromRow(row) ==
  [id |-> row.id,
   server |-> row.server,
   media |-> row.media,
   user_id |-> row.user_id,
   country |-> row.country,
   proto |-> row.proto,
   user_agent_class |-> row.user_agent_class,
   bytes |-> row.bytes,
   opened_at |-> row.opened_at,
   updated_at |-> row.updated_at]

\* sync_active_sessions, lines 136-152: the table the committed transaction
\* leaves (every old row deleted, one row added per session)
SyncTable(table, sessions) == { ToRow(session) : session \in sessions }

\* sync_active_sessions, lines 155-157: the table a rolled-back transaction
\* leaves
SyncRolledBack(table, sessions) == table

\* restore_active_sessions: the manager after startup's restore; ok is
\* whether the query of the table succeeded (a failure is logged and the
\* registry stays as constructed)
RestoreActiveSessions(m, table, ok) ==
  IF ok THEN RestoreSessions(m, { FromRow(row) : row \in table }) ELSE m

\* write_global_stats line 66, write_dimension_stats line 97
BandwidthBps(total_bytes) ==
  IF total_bytes # 0 THEN total_bytes \div 60 ELSE 0

\* the measure columns both writers insert or overwrite
MeasureColumns(stats) ==
  [sessions_started |-> stats.sessions_started,
   sessions_closed |-> stats.sessions_closed,
   total_bytes |-> stats.total_bytes,
   bandwidth_bps |-> BandwidthBps(stats.total_bytes),
   watch_time_seconds |-> stats.watch_time_seconds,
   unique_users |-> stats.unique_users,
   peak_concurrent |-> stats.peak_concurrent]

\* a slip of the upsert: on a key collision the started count is added to
\* the stored one
write_global_statsAdding(table, minute, stats) ==
  IF minute \in DOMAIN table
  THEN [table EXCEPT ![minute] =
         [MeasureColumns(stats) EXCEPT
            !.sessions_started = @ + table[minute].sessions_started]]
  ELSE DictPut(table, minute, MeasureColumns(stats))

\* write_global_stats: insert the row of minute, or overwrite its measures
write_global_stats(table, minute, stats) ==
  DictPut(table, minute, MeasureColumns(stats))

\* write_dimension_stats: one upsert per dimension value of the result
write_dimension_stats(table, minute, stats_by_dimension) ==
  LET written == { <<minute, value>> : value \in DOMAIN stats_by_dimension }
  IN [key \in DOMAIN table \cup written |->
        IF key \in written THEN MeasureColumns(stats_by_dimension[key[2]])
        ELSE table[key]]

\* init_db on an empty database: the six stats tables
EmptyStatsDb ==
  [global |-> EmptyDict, by_server |-> EmptyDict, by_channel |-> EmptyDict,
   by_country |-> EmptyDict, by_protocol |-> EmptyDict,
   by_user_agent |-> EmptyDict]

\* run_aggregation, lines 41-50: the tables the committed transaction leaves
WriteStats(db, minute, stats) ==
  [global |-> write_global_stats(db.global, minute, stats.global),
   by_server |->
     write_dimension_stats(db.by_server, minute, stats.by_server),
   by_channel |->
     write_dimension_stats(db.by_channel, minute, stats.by_channel),
   by_country |->
     write_dimension_stats(db.by_country, minute, stats.by_country),
   by_protocol |->
     write_dimension_stats(db.by_protocol, minute, stats.by_protocol),
   by_user_agent |->
     write_dimension_stats(db.by_user_agent, minute, stats.by_user_agent)]

\* a slip of the failure handler: the flushed counts are put back into the
\* window for the next minute
AggWriteFailedPutBack(m, db, stats) ==
  [mgr |-> [m EXCEPT
              !.minute_started = @ + stats.global.sessions_started,
              !.minute_closed = @ + stats.global.sessions_closed,
              !.minute_bytes = @ + stats.global.total_bytes],
   db |-> db]

\* run_aggregation, lines 53-61: a failed write is rolled back, logged and
\* swallowed; the manager is not touched
AggWriteFailed(m, db, stats) == [mgr |-> m, db |-> db]

(***************************************************************************)
(* State                                                                   *)
(***************************************************************************)
VARIABLES
  mgr,          \* sessions_manager, the process's ActiveSessionsManager
  lastOp,       \* the operation that made the last step, with its input and,
                \* for a close, whether its id was in the registry
  lastStats,    \* what the last step's get_and_reset_minute_stats returned
  startsOnly,   \* start events since construction, while nothing else but
                \* flushes and backups was applied to an empty manager; -1
                \* once a close was applied or the count is past its bound
  idsStarted,   \* the ids of those start events
  resetSize,    \* the registry size at the last reset of the window, while
                \* no start, close or restore followed it; -1 otherwise
  prevResetSize, \* after a flush: resetSize as that flush found it
  winNeg,       \* a close whose closed_at is earlier than the opened_at of
                \* the session it found was applied since the last reset
  flushedNeg,   \* after a flush: winNeg as that flush found it
  startedLast,  \* the ids whose most recent event applied to the manager
                \* constructed empty was a start
  \* the process and the durable store
  phase,        \* "down": no process; "up": started, restored and serving
  db_active,    \* the committed rows of table active_sessions
  db_stats,     \* the committed rows of the six stats tables
  minute,       \* the wall clock, in minutes
  \* history of the process and the store
  regAtCrash,   \* right after a restart: the registry the crash destroyed
  syncedSnap,   \* the sessions get_all_sessions gave the last sync that
                \* committed
  restored,     \* the list the last restore_sessions call was given, until
                \* a start or close follows
  freshRestore, \* restore_sessions ran and no start, close or flush followed
  flushedFresh, \* after a flush: freshRestore as that flush found it
  lostMinutes,  \* the minutes whose write failed
  winStarts,    \* start events applied since the last reset or construction
  winCloses,    \* close events applied since the last reset or construction
  \* the callers of the manager
  lock,         \* the Lock of the manager: "free" or the thread that holds it
  calls,        \* per thread: the call it is in and how far it has come
  conc,         \* counts of the calls begun, returned and flushed so far
  \* the webhook endpoint
  hook,         \* the request receive_webhook is serving and its counters
  \* the lifespan of the application
  boot,         \* the step of main.lifespan the process is at, the scheduler
                \* and its jobs, and what has happened in this process
  \* the transaction of sync_active_sessions
  tx,           \* the statement the SQLAlchemy session of the running
                \* sync_active_sessions call is at, its snapshot of the
                \* registry and the rows it has changed but not committed
  \* history of the registry size
  winMax,       \* the largest size the registry has had since the last reset,
                \* restore or construction, the size right after it included
  flushedMax    \* after a flush: winMax as that flush found it

progVars == <<mgr, lastOp, lastStats>>

histVars ==
  <<startsOnly, idsStarted, resetSize, prevResetSize, winNeg, flushedNeg,
    startedLast>>

storeVars ==
  <<phase, db_active, db_stats, minute>>

lifeHistVars ==
  <<regAtCrash, syncedSnap, restored, freshRestore, flushedFresh, lostMinutes,
    winStarts, winCloses>>

lifeVars == <<storeVars, lifeHistVars>>

concVars == <<lock, calls, conc>>

appVars == <<hook, boot, tx>>

peakVars == <<winMax, flushedMax>>

vars == <<progVars, histVars, lifeVars, concVars, appVars, peakVars>>

\* start events counted by startsOnly
MaxStartsCounted == 4

\* minutes the clock runs through
MaxMinutes == 2

NoEvent == [id |-> ""]
NoStats == MinuteStats(NewManager)

Op(name, event_data, found) ==
  [op |-> name, ev |-> event_data, found |-> found]

\* the close finds its session and carries a closed_at before its opened_at
EarlyClose(m, event_data) ==
  /\ event_data.id \in DOMAIN m.sessions
  /\ event_data.closed_at # 0
  /\ event_data.closed_at < m.sessions[event_data.id].opened_at

\* the minute window has room for one more event
WindowOpen(m) == m.minute_started + m.minute_closed < MaxWindowEvents

\* the process and the store as they are before the first start of the
\* application: no process, empty tables
InitLife ==
  /\ phase = "down"
  /\ db_active = {}
  /\ db_stats = EmptyStatsDb
  /\ minute = 0
  /\ regAtCrash = EmptyDict
  /\ syncedSnap = {}
  /\ restored = {}
  /\ freshRestore = FALSE
  /\ flushedFresh = FALSE
  /\ lostMinutes = {}
  /\ winStarts = 0
  /\ winCloses = 0

InitHist ==
  /\ startsOnly = 0
  /\ idsStarted = {}
  /\ resetSize = -1
  /\ prevResetSize = -1
  /\ winNeg = FALSE
  /\ flushedNeg = FALSE
  /\ startedLast = {}

(***************************************************************************)
(* Spec: the manager alone, each public operation one atomic step (its     *)
(* critical section), on a manager constructed empty.                      *)
(***************************************************************************)
\* calls the threads may begin
MaxCalls == 4

\* the threads that call the manager: the event loop and the pool threads of
\* the scheduler
Threads == {"t1", "t2"}

NoPayload ==
  Payload("", [server |-> "", media |-> "", user_id |-> "", country |-> "",
               proto |-> "", user_agent |-> ""], 0, 0, 0)
NoSession == NewSession(NoPayload)
NoAttr == UnmatchedClose(NoPayload)

\* a thread outside every call
Idle ==
  [pc |-> "idle", op |-> "none", ev |-> NoPayload, session |-> NoSession,
   attr |-> NoAttr, stats |-> NoStats, seenStarts |-> 0, seenCloses |-> 0]

\* no request is being served
NoRequest ==
  [pc |-> "idle", events |-> <<>>, i |-> 1, processed |-> 0, errors |-> 0,
   status |-> "", outcomes |-> <<>>, requests |-> 0]

\* no process
NoProcess ==
  [pc |-> 0, boots |-> 0, serving |-> FALSE, jobs |-> {}, running |-> FALSE,
   aggregating |-> FALSE, syncing |-> FALSE, snap |-> {},
   restoreReturned |-> FALSE, restoreOk |-> FALSE, touchedEarly |-> FALSE,
   finalSyncs |-> 0, finalOk |-> FALSE, jobAfterFinal |-> FALSE,
   regAtExit |-> {}]

\* no sync_active_sessions call has been made
NoTx ==
  [pc |-> "idle", snap |-> {}, todo |-> {}, pending |-> {}, before |-> {},
   deleted |-> FALSE, ok |-> FALSE, syncs |-> 0]

InitHook ==
  /\ hook = NoRequest
  /\ boot = NoProcess
  /\ tx = NoTx
  /\ winMax = 0
  /\ flushedMax = 0

InitConc ==
  /\ lock = "free"
  /\ calls = [t \in Threads |-> Idle]
  /\ conc = [begun |-> 0,
             startsBegun |-> 0, startsReturned |-> 0,
             closesBegun |-> 0, closesReturned |-> 0,
             flushedStarted |-> 0, flushedClosed |-> 0]

Init ==
  /\ mgr = NewManager
  /\ InitConc
  /\ InitHook
  /\ lastOp = Op("init", NoEvent, FALSE)
  /\ lastStats = NoStats
  /\ InitHist
  /\ InitLife

\* webhook play_started -> sessions_manager.session_started(event_data)
Start(event_data) ==
  /\ WindowOpen(mgr)
  /\ mgr' = SessionStarted(mgr, event_data)
  /\ lastOp' = Op("start", event_data, event_data.id \in DOMAIN mgr.sessions)
  /\ lastStats' = NoStats
  /\ IF startsOnly >= 0 /\ startsOnly < MaxStartsCounted
     THEN /\ startsOnly' = startsOnly + 1
          /\ idsStarted' = idsStarted \cup {event_data.id}
     ELSE /\ startsOnly' = -1
          /\ idsStarted' = {}
  /\ resetSize' = -1
  /\ prevResetSize' = -1
  /\ flushedNeg' = FALSE
  /\ startedLast' = startedLast \cup {event_data.id}
  /\ winMax' = Max(winMax, Size(mgr'.sessions))
  /\ UNCHANGED <<winNeg, lifeVars, concVars, appVars, flushedMax>>

\* webhook play_closed -> sessions_manager.session_closed(event_data)
Close(event_data) ==
  /\ WindowOpen(mgr)
  /\ mgr' = SessionClosed(mgr, event_data)
  /\ lastOp' = Op("close", event_data, event_data.id \in DOMAIN mgr.sessions)
  /\ lastStats' = NoStats
  /\ startsOnly' = -1
  /\ idsStarted' = {}
  /\ resetSize' = -1
  /\ prevResetSize' = -1
  /\ winNeg' = (winNeg \/ EarlyClose(mgr, event_data))
  /\ flushedNeg' = FALSE
  /\ startedLast' = startedLast \ {event_data.id}
  /\ winMax' = Max(winMax, Size(mgr'.sessions))
  /\ UNCHANGED <<lifeVars, concVars, appVars, flushedMax>>

\* sessions_manager.get_and_reset_minute_stats()
Flush ==
  /\ mgr' = GetAndResetMinuteStats(mgr).mgr
  /\ lastStats' = GetAndResetMinuteStats(mgr).stats
  /\ lastOp' = Op("flush", NoEvent, FALSE)
  /\ resetSize' = Size(mgr.sessions)
  /\ prevResetSize' = resetSize
  /\ winNeg' = FALSE
  /\ flushedNeg' = winNeg
  /\ flushedMax' = winMax
  /\ winMax' = Size(mgr'.sessions)
  /\ UNCHANGED <<startsOnly, idsStarted, startedLast, lifeVars, concVars,
                 appVars>>

\* sessions_manager.get_all_sessions()
Backup ==
  /\ mgr' = GetAllSessions(mgr).mgr
  /\ lastOp' = Op("backup", NoEvent, FALSE)
  /\ lastStats' = NoStats
  /\ prevResetSize' = -1
  /\ flushedNeg' = FALSE
  /\ UNCHANGED <<startsOnly, idsStarted, resetSize, winNeg, startedLast,
                 lifeVars, concVars, appVars, peakVars>>

Next ==
  \/ \E event_data \in StartEvents : Start(event_data)
  \/ \E event_data \in CloseEvents : Close(event_data)
  \/ Flush
  \/ Backup

Spec == Init /\ [][Next]_vars

(***************************************************************************)
(* SpecLife: the process with its durable store.  The application starts   *)
(* (restore_active_sessions, then the scheduler and the webhook), serves   *)
(* events while the scheduler runs run_aggregation at each minute boundary *)
(* and sync_active_sessions on its interval, and may crash at any moment   *)
(* and be started again.  A database transaction commits or fails as a     *)
(* whole; a crash before the commit leaves the tables as they were.        *)
(***************************************************************************)
\* start/close events between two resets of the window, in SpecLife
MaxLifeWindowEvents == 2

LifeWindowOpen(m) ==
  /\ m.minute_started + m.minute_closed < MaxLifeWindowEvents
  /\ minute < MaxMinutes

LifeStartEvents == { e \in StartEvents : e.bytes = 100 }
LifeCloseEvents ==
  { e \in CloseEvents : e.closed_at = 1500 /\ e.server = "a" }

InitLifeSpec ==
  /\ mgr = NewManager
  /\ InitConc
  /\ InitHook
  /\ lastOp = Op("init", NoEvent, FALSE)
  /\ lastStats = NoStats
  /\ InitHist
  /\ InitLife

\* main.lifespan, line 35, in a new process: restore_active_sessions()
Boot(ok) ==
  /\ phase = "down"
  /\ phase' = "up"
  /\ mgr' = RestoreActiveSessions(NewManager, db_active, ok)
  /\ lastOp' = Op("boot", NoEvent, ok)
  /\ lastStats' = NoStats
  /\ restored' = IF ok THEN { FromRow(row) : row \in db_active } ELSE {}
  /\ freshRestore' = ok
  /\ flushedFresh' = FALSE
  /\ winStarts' = 0
  /\ winCloses' = 0
  /\ UNCHANGED <<peakVars, appVars, concVars, histVars, db_active, db_stats, minute, regAtCrash,
                 syncedSnap, lostMinutes>>

\* the process dies: its memory and its open transactions are gone
Crash ==
  /\ phase = "up"
  /\ phase' = "down"
  /\ regAtCrash' = mgr.sessions
  /\ mgr' = NewManager
  /\ lastOp' = Op("crash", NoEvent, FALSE)
  /\ lastStats' = NoStats
  /\ restored' = {}
  /\ freshRestore' = FALSE
  /\ flushedFresh' = FALSE
  /\ winStarts' = 0
  /\ winCloses' = 0
  /\ UNCHANGED <<peakVars, appVars, concVars, histVars, db_active, db_stats, minute, syncedSnap,
                 lostMinutes>>

\* webhook play_started while the application serves
LifeStart(event_data) ==
  /\ phase = "up"
  /\ LifeWindowOpen(mgr)
  /\ mgr' = SessionStarted(mgr, event_data)
  /\ lastOp' = Op("start", NoEvent, event_data.id \in DOMAIN mgr.sessions)
  /\ lastStats' = NoStats
  /\ regAtCrash' = EmptyDict
  /\ restored' = {}
  /\ freshRestore' = FALSE
  /\ flushedFresh' = FALSE
  /\ winStarts' = winStarts + 1
  /\ UNCHANGED <<peakVars, appVars, concVars, histVars, storeVars, syncedSnap, lostMinutes, winCloses>>

\* webhook play_closed while the application serves
LifeClose(event_data) ==
  /\ phase = "up"
  /\ LifeWindowOpen(mgr)
  /\ mgr' = SessionClosed(mgr, event_data)
  /\ lastOp' = Op("close", NoEvent, event_data.id \in DOMAIN mgr.sessions)
  /\ lastStats' = NoStats
  /\ regAtCrash' = EmptyDict
  /\ restored' = {}
  /\ freshRestore' = FALSE
  /\ flushedFresh' = FALSE
  /\ winCloses' = winCloses + 1
  /\ UNCHANGED <<peakVars, appVars, concVars, histVars, storeVars, syncedSnap, lostMinutes, winStarts>>

\* GET /stats/active: sessions_manager.get_all_sessions()
ActiveSessionsCount ==
  /\ phase = "up"
  /\ mgr' = GetAllSessions(mgr).mgr
  /\ lastOp' = Op("active_count", NoEvent, FALSE)
  /\ lastStats' = NoStats
  /\ regAtCrash' = EmptyDict
  /\ flushedFresh' = FALSE
  /\ UNCHANGED <<peakVars, appVars, concVars, histVars, storeVars, syncedSnap, restored, freshRestore,
                 lostMinutes, winStarts, winCloses>>

\* sync_active_sessions: sessions = get_all_sessions(), then the transaction
\* that replaces the table commits (ok), or raises and is rolled back
SyncActiveSessions(ok) ==
  LET got == GetAllSessions(mgr)
  IN /\ phase = "up"
     /\ mgr' = got.mgr
     /\ db_active' = IF ok THEN SyncTable(db_active, got.sessions)
                     ELSE SyncRolledBack(db_active, got.sessions)
     /\ syncedSnap' = IF ok THEN got.sessions ELSE syncedSnap
     /\ lastOp' = Op("sync", NoEvent, ok)
     /\ lastStats' = NoStats
     /\ regAtCrash' = EmptyDict
     /\ flushedFresh' = FALSE
     /\ UNCHANGED <<peakVars, appVars, concVars, histVars, phase, db_stats, minute, restored, freshRestore,
                    lostMinutes, winStarts, winCloses>>

\* run_aggregation at the next minute boundary: the key is the minute that
\* ended, stats = get_and_reset_minute_stats(), then the transaction of the
\* six writes commits (ok), or raises, is rolled back, logged and swallowed.
\* The stats tables are only ever written: with tracked false their content
\* is left out of the state, which changes nothing the program can observe.
RunAggregation(ok, tracked) ==
  LET flushed == GetAndResetMinuteStats(mgr)
      failed == AggWriteFailed(flushed.mgr, db_stats, flushed.stats)
  IN /\ phase = "up"
     /\ minute < MaxMinutes
     /\ minute' = minute + 1
     /\ lastStats' = flushed.stats
     /\ mgr' = IF ok THEN flushed.mgr ELSE failed.mgr
     /\ IF tracked
        THEN /\ db_stats' = IF ok
                            THEN WriteStats(db_stats, minute, flushed.stats)
                            ELSE failed.db
             /\ lostMinutes' = IF ok THEN lostMinutes
                               ELSE lostMinutes \cup {minute}
        ELSE UNCHANGED <<db_stats, lostMinutes>>
     /\ lastOp' = Op("flush", NoEvent, ok)
     /\ regAtCrash' = EmptyDict
     /\ freshRestore' = FALSE
     /\ flushedFresh' = freshRestore
     /\ restored' = IF freshRestore THEN restored ELSE {}
     /\ winStarts' = 0
     /\ winCloses' = 0
     /\ UNCHANGED <<peakVars, appVars, concVars, histVars, phase, db_active, syncedSnap>>

NextLife ==
  \/ \E ok \in BOOLEAN : Boot(ok)
  \/ Crash
  \/ \E event_data \in LifeStartEvents : LifeStart(event_data)
  \/ \E event_data \in LifeCloseEvents : LifeClose(event_data)
  \/ ActiveSessionsCount
  \/ \E ok \in BOOLEAN : SyncActiveSessions(ok)
  \/ \E ok \in BOOLEAN : RunAggregation(ok, FALSE)

SpecLife == InitLifeSpec /\ [][NextLife]_vars

(***************************************************************************)
(* SpecAgg: the serving application and its stats tables.  The process was *)
(* started on an empty database; events arrive and the scheduler runs      *)
(* run_aggregation at each minute boundary, its write committing or not.   *)
(***************************************************************************)
InitAgg ==
  /\ mgr = NewManager
  /\ InitConc
  /\ InitHook
  /\ lastOp = Op("init", NoEvent, FALSE)
  /\ lastStats = NoStats
  /\ InitHist
  /\ phase = "up"
  /\ db_active = {}
  /\ db_stats = EmptyStatsDb
  /\ minute = 0
  /\ regAtCrash = EmptyDict
  /\ syncedSnap = {}
  /\ restored = {}
  /\ freshRestore = FALSE
  /\ flushedFresh = FALSE
  /\ lostMinutes = {}
  /\ winStarts = 0
  /\ winCloses = 0

AggStartEvents == { e \in LifeStartEvents : e.server = "a" }

NextAgg ==
  \/ \E event_data \in AggStartEvents : LifeStart(event_data)
  \/ \E event_data \in LifeCloseEvents : LifeClose(event_data)
  \/ \E ok \in BOOLEAN : RunAggregation(ok, TRUE)

SpecAgg == InitAgg /\ [][NextAgg]_vars

(***************************************************************************)
(* SpecConc: app/sessions.py under concurrent callers.  Every method is     *)
(* three steps: the call, the entry into "with self._lock" with the first  *)
(* half of the body, and the second half with the release and the return.  *)
(***************************************************************************)
\* a slip of the lock: the with statement does not wait
CanAcquireNoLock(l) == TRUE

\* "with self._lock:" enters when no thread holds the lock
CanAcquire(l) == l = "free"

\* a slip of session_started: the dimension updates are outside the with
\* block
HeldAfterFirstHalfStartDropped(t, op) ==
  IF op = "start" THEN "free" ELSE t

\* a slip of get_and_reset_minute_stats: the reset of the counters is outside
\* the with block
HeldAfterFirstHalfFlushDropped(t, op) ==
  IF op = "flush" THEN "free" ELSE t

\* the holder of the lock between the two halves of the body of a method
HeldAfterFirstHalf(t, op) == t

ConcStartEvents == { e \in StartEvents : e.bytes = 100 /\ e.server = "a" }
ConcCloseEvents ==
  { e \in CloseEvents : e.closed_at = 1500 /\ e.server = "a" }
ConcRestoreList ==
  { NewSession(e) :
      e \in { x \in StartEvents :
                x.id = "s2" /\ x.server = "b" /\ x.bytes = 0 } }

InitConcSpec ==
  /\ mgr = NewManager
  /\ InitConc
  /\ InitHook
  /\ lastOp = Op("init", NoEvent, FALSE)
  /\ lastStats = NoStats
  /\ InitHist
  /\ InitLife

\* thread t calls a method of the manager
Begin(t, op, event_data, session) ==
  /\ calls[t].pc = "idle"
  /\ conc.begun < MaxCalls
  /\ calls' = [calls EXCEPT ![t] =
       [Idle EXCEPT !.pc = "called", !.op = op, !.ev = event_data,
                    !.session = session,
                    !.seenStarts = conc.startsReturned,
                    !.seenCloses = conc.closesReturned]]
  /\ conc' = [conc EXCEPT
       !.begun = @ + 1,
       !.startsBegun = IF op = "start" THEN @ + 1 ELSE @,
       !.closesBegun = IF op = "close" THEN @ + 1 ELSE @]
  /\ lastOp' = Op("call", NoEvent, TRUE)
  /\ UNCHANGED <<mgr, lock, lastStats, histVars, lifeVars, appVars,
                 peakVars>>

\* session_started, lines 52-64: the Session is built before the lock
CallStart(t, event_data) ==
  Begin(t, "start", event_data, NewSession(event_data))

CallClose(t, event_data) == Begin(t, "close", event_data, NoSession)

CallFlush(t) == Begin(t, "flush", NoPayload, NoSession)

CallGetAll(t) == Begin(t, "get_all", NoPayload, NoSession)

CallRestore(t) == Begin(t, "restore", NoPayload, NoSession)

\* thread t enters the with block of the method it called
Enter(t, op) ==
  /\ calls[t].pc = "called"
  /\ calls[t].op = op
  /\ CanAcquire(lock)
  /\ lock' = HeldAfterFirstHalf(t, op)
  /\ lastOp' = Op("enter", NoEvent, TRUE)
  /\ UNCHANGED <<conc, lastStats, histVars, lifeVars, appVars, peakVars>>

\* thread t leaves the with block and returns
Leave(t, op) ==
  /\ calls[t].pc = "locked"
  /\ calls[t].op = op
  /\ lock' = "free"
  /\ calls' = [calls EXCEPT ![t] = Idle]
  /\ UNCHANGED <<histVars, lifeVars, appVars, peakVars>>

\* session_started, lines 66-76: registry and global counters
StartEnter(t) ==
  /\ Enter(t, "start")
  /\ mgr' = SessionStartedGlobal(mgr, calls[t].session)
  /\ calls' = [calls EXCEPT ![t].pc = "locked"]

\* session_started, lines 78-83: dimension counters, then the return
StartLeave(t) ==
  /\ Leave(t, "start")
  /\ mgr' = SessionStartedDims(mgr, calls[t].session)
  /\ conc' = [conc EXCEPT !.startsReturned = @ + 1]
  /\ lastOp' = Op("start_return", NoEvent, TRUE)
  /\ UNCHANGED lastStats

\* session_closed, lines 90-103 and 111-120: pop and global counters
CloseEnter(t) ==
  LET attr == CloseAttribution(mgr, calls[t].ev)
  IN /\ Enter(t, "close")
     /\ mgr' = SessionClosedGlobal(mgr, calls[t].ev, attr)
     /\ calls' = [calls EXCEPT ![t].pc = "locked", ![t].attr = attr]

\* session_closed, lines 105-110 and 122-127: dimension counters
CloseLeave(t) ==
  /\ Leave(t, "close")
  /\ mgr' = SessionClosedDims(mgr, calls[t].attr)
  /\ conc' = [conc EXCEPT !.closesReturned = @ + 1]
  /\ lastOp' = Op("close_return", NoEvent, calls[t].attr.found)
  /\ UNCHANGED lastStats

\* get_and_reset_minute_stats, lines 136-164: the result is built
FlushEnter(t) ==
  /\ Enter(t, "flush")
  /\ calls' = [calls EXCEPT ![t].pc = "locked", ![t].stats = MinuteStats(mgr)]
  /\ UNCHANGED mgr

\* get_and_reset_minute_stats, lines 166-179: the reset and the return
FlushLeave(t) ==
  /\ Leave(t, "flush")
  /\ mgr' = ResetMinute(mgr)
  /\ lastStats' = calls[t].stats
  /\ conc' = [conc EXCEPT
       !.flushedStarted = @ + calls[t].stats.global.sessions_started,
       !.flushedClosed = @ + calls[t].stats.global.sessions_closed]
  /\ lastOp' = Op("flush_return", NoEvent, TRUE)

\* get_all_sessions, lines 183-184: the list is copied
GetAllEnter(t) ==
  /\ Enter(t, "get_all")
  /\ calls' = [calls EXCEPT ![t].pc = "locked"]
  /\ mgr' = GetAllSessions(mgr).mgr

GetAllLeave(t) ==
  /\ Leave(t, "get_all")
  /\ lastOp' = Op("get_all_return", NoEvent, TRUE)
  /\ UNCHANGED <<mgr, conc, lastStats>>

\* restore_sessions, lines 188-190: the sessions are inserted
RestoreEnter(t) ==
  /\ Enter(t, "restore")
  /\ calls' = [calls EXCEPT ![t].pc = "locked"]
  /\ mgr' = RestoreInsert(mgr, ConcRestoreList)

\* restore_sessions, line 191: the peak counter is set
RestoreLeave(t) ==
  /\ Leave(t, "restore")
  /\ mgr' = RestorePeak(mgr)
  /\ lastOp' = Op("restore_return", NoEvent, TRUE)
  /\ UNCHANGED <<conc, lastStats>>

NextConc ==
  \/ \E t \in Threads : \E e \in ConcStartEvents : CallStart(t, e)
  \/ \E t \in Threads : \E e \in ConcCloseEvents : CallClose(t, e)
  \/ \E t \in Threads : CallFlush(t)
  \/ \E t \in Threads : CallGetAll(t)
  \/ \E t \in Threads : CallRestore(t)
  \/ \E t \in Threads : StartEnter(t)
  \/ \E t \in Threads : StartLeave(t)
  \/ \E t \in Threads : CloseEnter(t)
  \/ \E t \in Threads : CloseLeave(t)
  \/ \E t \in Threads : FlushEnter(t)
  \/ \E t \in Threads : FlushLeave(t)
  \/ \E t \in Threads : GetAllEnter(t)
  \/ \E t \in Threads : GetAllLeave(t)
  \/ \E t \in Threads : RestoreEnter(t)
  \/ \E t \in Threads : RestoreLeave(t)

SpecConc == InitConcSpec /\ [][NextConc]_vars

(***************************************************************************)
(* SpecHook: app/webhook.py, receive_webhook serving requests one event at *)
(* a time.  A raw event carries the value of its "event" key, its other    *)
(* fields, and whether its "bytes" value is a numeric string, which the    *)
(* validation coerces while the handlers read the raw payload.             *)
(***************************************************************************)
\* events of one request body
MaxBatch == 2

\* requests served
MaxRequests == 2

Raw(kind, event_data, bytes_is_str) ==
  [kind |-> kind, data |-> event_data, bytes_is_str |-> bytes_is_str]

HookStart == { e \in StartEvents : e.bytes = 100 /\ e.server = "a" }
HookClose ==
  { e \in CloseEvents :
      e.closed_at = 1500 /\ e.server = "a" /\ e.id = "s1" }

RawEvents ==
  { Raw("play_started", e, FALSE) : e \in HookStart }
    \cup { Raw("play_closed", e, b) : e \in HookClose, b \in BOOLEAN }
    \cup { Raw("play_paused", e, FALSE) : e \in HookClose }

\* request bodies that are a list of events, or one event (line 23-24: a dict
\* is a list of one)
Batches ==
  UNION { [1..n -> RawEvents] : n \in 0..MaxBatch }

\* StreamEvent(**event_data), webhook.py line 36 and schemas.py line 13: the
\* event literal
Validates(raw) == raw.kind \in {"play_started", "play_closed"}

\* session_closed on a payload whose bytes is a string: the subtraction of
\* line 96 raises after the pop of line 90; without a session the addition
\* of line 119 raises after the increment of line 118
SessionClosedRaising(m, event_data) ==
  IF event_data.id \in DOMAIN m.sessions
  THEN [m EXCEPT !.sessions = DictDel(@, event_data.id)]
  ELSE [m EXCEPT !.minute_closed = @ + 1]

\* receive_webhook, lines 34-48: the body of the loop for one event; raised
\* is whether the except clause was entered
HandleRaw(m, raw) ==
  IF ~Validates(raw) THEN [mgr |-> m, raised |-> TRUE]
  ELSE IF raw.kind = "play_started"
  THEN [mgr |-> SessionStarted(m, raw.data), raised |-> FALSE]
  ELSE IF raw.bytes_is_str
  THEN [mgr |-> SessionClosedRaising(m, raw.data), raised |-> TRUE]
  ELSE [mgr |-> SessionClosed(m, raw.data), raised |-> FALSE]

\* a slip of the except clause: the first failure ends the loop
NextAfterErrorAbort(i, n) == n + 1

\* receive_webhook, lines 46-48: after the except clause the loop goes on
\* with the next event
NextAfterError(i, n) == i + 1

\* receive_webhook, line 51: the status of the response
ResponseStatus(errors) == IF errors = 0 THEN "ok" ELSE "partial"

InitHookSpec ==
  /\ mgr = NewManager
  /\ InitConc
  /\ InitHook
  /\ lastOp = Op("init", NoEvent, FALSE)
  /\ lastStats = NoStats
  /\ InitHist
  /\ InitLife

\* receive_webhook, lines 20-31: a body that is a list or a dict, and the
\* counters at zero
ReceiveBatch(events) ==
  /\ hook.pc \in {"idle", "done"}
  /\ hook.requests < MaxRequests
  /\ hook' = [NoRequest EXCEPT !.pc = "loop", !.events = events,
                               !.requests = hook.requests + 1]
  /\ UNCHANGED <<progVars, histVars, lifeVars, concVars, boot, tx, peakVars>>

\* receive_webhook, lines 27-28: a body that is neither
ReceiveOther ==
  /\ hook.pc \in {"idle", "done"}
  /\ hook.requests < MaxRequests
  /\ hook' = [NoRequest EXCEPT !.pc = "done", !.status = "error",
                               !.errors = 1,
                               !.requests = hook.requests + 1]
  /\ UNCHANGED <<progVars, histVars, lifeVars, concVars, boot, tx, peakVars>>

\* receive_webhook, lines 33-48: one turn of the loop
HandleEvent ==
  LET n == Len(hook.events)
      done == HandleRaw(mgr, hook.events[hook.i])
  IN /\ hook.pc = "loop"
     /\ hook.i <= n
     /\ mgr' = done.mgr
     /\ hook' = [hook EXCEPT
          !.processed = IF done.raised THEN @ ELSE @ + 1,
          !.errors = IF done.raised THEN @ + 1 ELSE @,
          !.outcomes = Append(@, ~done.raised),
          !.i = IF done.raised THEN NextAfterError(hook.i, n) ELSE @ + 1]
     /\ UNCHANGED <<lastOp, lastStats, histVars, lifeVars, concVars, boot, tx, peakVars>>

\* receive_webhook, lines 50-54: the response
Respond ==
  /\ hook.pc = "loop"
  /\ hook.i > Len(hook.events)
  /\ hook' = [hook EXCEPT !.pc = "done",
                          !.status = ResponseStatus(hook.errors)]
  /\ UNCHANGED <<progVars, histVars, lifeVars, concVars, boot, tx, peakVars>>

NextHook ==
  \/ \E events \in Batches : ReceiveBatch(events)
  \/ ReceiveOther
  \/ HandleEvent
  \/ Respond

SpecHook == InitHookSpec /\ [][NextHook]_vars

(***************************************************************************)
(* SpecBoot: app/main.py, the lifespan of the process step by step, with   *)
(* the scheduler's jobs running in pool threads (a job begins, then ends)  *)
(* and the webhook events that arrive while the application serves.        *)
(***************************************************************************)
\* processes launched one after the other on the same database
MaxBoots == 2

\* a slip of lifespan: the restore is the last step before the yield
LifespanRestoreLast ==
  <<"init_db", "add_jobs", "scheduler_start", "restore_active_sessions",
    "yield", "scheduler_shutdown", "sync_active_sessions", "exit">>

\* lifespan, lines 31-69: the calls in program order
Lifespan ==
  <<"init_db", "restore_active_sessions", "add_jobs", "scheduler_start",
    "yield", "scheduler_shutdown", "sync_active_sessions", "exit">>

\* a slip of the shutdown: wait=False
ShutdownMayReturnNoWait(aggregating, syncing) == TRUE

\* lifespan, line 65: scheduler.shutdown(wait=True) returns when no job is
\* running
ShutdownMayReturn(aggregating, syncing) == ~aggregating /\ ~syncing

BootStartEvents == ConcStartEvents
BootCloseEvents == ConcCloseEvents

bootFrame ==
  <<histVars, concVars, hook, tx, phase, db_stats, minute, lifeHistVars>>

InitBootSpec ==
  /\ mgr = NewManager
  /\ InitConc
  /\ InitHook
  /\ lastOp = Op("init", NoEvent, FALSE)
  /\ lastStats = NoStats
  /\ InitHist
  /\ InitLife

\* the step of lifespan the process is at
AtStep(name) == boot.pc \in 1..Len(Lifespan) /\ Lifespan[boot.pc] = name

\* something other than the restore touches the manager in this step
Touch(b) == [b EXCEPT !.touchedEarly = @ \/ ~b.restoreReturned,
                      !.jobAfterFinal = @ \/ b.finalSyncs > 0]

\* run.py: a new process; the module-level manager is constructed
Launch ==
  /\ boot.pc = 0
  /\ boot.boots < MaxBoots
  /\ boot' = [NoProcess EXCEPT !.pc = 1, !.boots = boot.boots + 1]
  /\ mgr' = NewManager
  /\ lastOp' = Op("launch", NoEvent, TRUE)
  /\ lastStats' = NoStats
  /\ UNCHANGED <<db_active, bootFrame>>
  /\ winMax' = 0
  /\ flushedMax' = 0

\* lifespan, line 31
InitDb ==
  /\ AtStep("init_db")
  /\ boot' = [boot EXCEPT !.pc = @ + 1]
  /\ lastOp' = Op("init_db", NoEvent, TRUE)
  /\ UNCHANGED <<mgr, lastStats, db_active, bootFrame>>
  /\ UNCHANGED peakVars

\* lifespan, line 35
Restore(ok) ==
  /\ AtStep("restore_active_sessions")
  /\ mgr' = RestoreActiveSessions(mgr, db_active, ok)
  /\ boot' = [boot EXCEPT !.pc = @ + 1, !.restoreReturned = TRUE,
                          !.restoreOk = ok]
  /\ lastOp' = Op("restore", NoEvent, ok)
  /\ UNCHANGED <<lastStats, db_active, bootFrame>>
  /\ winMax' = Size(mgr'.sessions)
  /\ UNCHANGED flushedMax

\* lifespan, lines 38-53
AddJobs ==
  /\ AtStep("add_jobs")
  /\ boot' = [boot EXCEPT !.pc = @ + 1,
                          !.jobs = {"aggregation", "session_sync"}]
  /\ lastOp' = Op("add_jobs", NoEvent, TRUE)
  /\ UNCHANGED <<mgr, lastStats, db_active, bootFrame>>
  /\ UNCHANGED peakVars

\* lifespan, line 55
SchedulerStart ==
  /\ AtStep("scheduler_start")
  /\ boot' = [boot EXCEPT !.pc = @ + 1, !.running = TRUE]
  /\ lastOp' = Op("scheduler_start", NoEvent, TRUE)
  /\ UNCHANGED <<mgr, lastStats, db_active, bootFrame>>
  /\ UNCHANGED peakVars

\* lifespan, line 60: the application starts to serve requests
Yield ==
  /\ AtStep("yield")
  /\ ~boot.serving
  /\ boot' = [boot EXCEPT !.serving = TRUE]
  /\ lastOp' = Op("yield", NoEvent, TRUE)
  /\ UNCHANGED <<mgr, lastStats, db_active, bootFrame>>
  /\ UNCHANGED peakVars

\* the server is told to stop: it serves no more requests and lifespan
\* resumes after the yield
ShutdownSignal ==
  /\ AtStep("yield")
  /\ boot.serving
  /\ boot' = [boot EXCEPT !.serving = FALSE, !.pc = @ + 1]
  /\ lastOp' = Op("shutdown", NoEvent, TRUE)
  /\ UNCHANGED <<mgr, lastStats, db_active, bootFrame>>
  /\ UNCHANGED peakVars

\* lifespan, line 65
SchedulerShutdown ==
  /\ AtStep("scheduler_shutdown")
  /\ ShutdownMayReturn(boot.aggregating, boot.syncing)
  /\ boot' = [boot EXCEPT !.pc = @ + 1, !.running = FALSE]
  /\ lastOp' = Op("scheduler_shutdown", NoEvent, TRUE)
  /\ UNCHANGED <<mgr, lastStats, db_active, bootFrame>>
  /\ UNCHANGED peakVars

\* lifespan, line 69: the final sync_active_sessions, in the main thread
FinalSync(ok) ==
  LET got == GetAllSessions(mgr)
  IN /\ AtStep("sync_active_sessions")
     /\ mgr' = got.mgr
     /\ db_active' = IF ok THEN SyncTable(db_active, got.sessions)
                     ELSE SyncRolledBack(db_active, got.sessions)
     /\ boot' = [boot EXCEPT !.pc = @ + 1, !.finalSyncs = @ + 1,
                             !.finalOk = ok]
     /\ lastOp' = Op("final_sync", NoEvent, ok)
     /\ UNCHANGED <<lastStats, bootFrame>>
     /\ UNCHANGED peakVars

\* lifespan returns and the process exits
Exit ==
  /\ AtStep("exit")
  /\ boot' = [boot EXCEPT !.pc = 0,
                          !.regAtExit = GetAllSessions(mgr).sessions]
  /\ mgr' = NewManager
  /\ lastOp' = Op("exit", NoEvent, TRUE)
  /\ winMax' = 0
  /\ UNCHANGED <<lastStats, db_active, bootFrame, flushedMax>>

\* a webhook event arrives while the application serves
BootStart(event_data) ==
  /\ boot.serving
  /\ mgr.minute_started + mgr.minute_closed < MaxLifeWindowEvents
  /\ mgr' = SessionStarted(mgr, event_data)
  /\ boot' = Touch(boot)
  /\ lastOp' = Op("start", NoEvent, TRUE)
  /\ lastStats' = NoStats
  /\ UNCHANGED <<db_active, bootFrame>>
  /\ winMax' = Max(winMax, Size(mgr'.sessions))
  /\ UNCHANGED flushedMax

BootClose(event_data) ==
  /\ boot.serving
  /\ mgr.minute_started + mgr.minute_closed < MaxLifeWindowEvents
  /\ mgr' = SessionClosed(mgr, event_data)
  /\ boot' = Touch(boot)
  /\ lastOp' = Op("close", NoEvent, TRUE)
  /\ lastStats' = NoStats
  /\ UNCHANGED <<db_active, bootFrame>>
  /\ winMax' = Max(winMax, Size(mgr'.sessions))
  /\ UNCHANGED flushedMax

\* the scheduler fires run_aggregation in a pool thread: the flush
AggregationBegins ==
  /\ boot.running
  /\ "aggregation" \in boot.jobs
  /\ ~boot.aggregating
  /\ mgr' = GetAndResetMinuteStats(mgr).mgr
  /\ lastStats' = GetAndResetMinuteStats(mgr).stats
  /\ boot' = [Touch(boot) EXCEPT !.aggregating = TRUE]
  /\ lastOp' = Op("job_flush", NoEvent, TRUE)
  /\ UNCHANGED <<db_active, bootFrame>>
  /\ flushedMax' = winMax
  /\ winMax' = Size(mgr'.sessions)

\* run_aggregation returns after its write
AggregationEnds ==
  /\ boot.aggregating
  /\ boot' = [Touch(boot) EXCEPT !.aggregating = FALSE]
  /\ lastOp' = Op("job_flush_end", NoEvent, TRUE)
  /\ UNCHANGED <<mgr, lastStats, db_active, bootFrame>>
  /\ UNCHANGED peakVars

\* the scheduler fires sync_active_sessions in a pool thread: line 131
SyncBegins ==
  /\ boot.running
  /\ "session_sync" \in boot.jobs
  /\ ~boot.syncing
  /\ mgr' = GetAllSessions(mgr).mgr
  /\ boot' = [Touch(boot) EXCEPT !.syncing = TRUE,
                                 !.snap = GetAllSessions(mgr).sessions]
  /\ lastOp' = Op("job_sync", NoEvent, TRUE)
  /\ UNCHANGED <<lastStats, db_active, bootFrame>>
  /\ UNCHANGED peakVars

\* sync_active_sessions, lines 133-159: the transaction commits or is
\* rolled back
SyncEnds(ok) ==
  /\ boot.syncing
  /\ db_active' = IF ok THEN SyncTable(db_active, boot.snap)
                  ELSE SyncRolledBack(db_active, boot.snap)
  /\ boot' = [Touch(boot) EXCEPT !.syncing = FALSE, !.snap = {}]
  /\ lastOp' = Op("job_sync_end", NoEvent, ok)
  /\ UNCHANGED <<mgr, lastStats, bootFrame>>
  /\ UNCHANGED peakVars

NextBoot ==
  \/ Launch
  \/ InitDb
  \/ \E ok \in BOOLEAN : Restore(ok)
  \/ AddJobs
  \/ SchedulerStart
  \/ Yield
  \/ ShutdownSignal
  \/ SchedulerShutdown
  \/ \E ok \in BOOLEAN : FinalSync(ok)
  \/ Exit
  \/ \E event_data \in BootStartEvents : BootStart(event_data)
  \/ \E event_data \in BootCloseEvents : BootClose(event_data)
  \/ AggregationBegins
  \/ AggregationEnds
  \/ SyncBegins
  \/ \E ok \in BOOLEAN : SyncEnds(ok)

SpecBoot == InitBootSpec /\ [][NextBoot]_vars

(***************************************************************************)
(* SpecSync: app/aggregator.py, sync_active_sessions statement by          *)
(* statement in its pool thread, while the webhook applies events to the   *)
(* manager.  db_active is what a reader of the table sees: the committed   *)
(* rows.                                                                   *)
(***************************************************************************)
\* sync_active_sessions calls made
MaxSyncs == 2

\* a slip of the sessionmaker: autocommit, every statement is durable at once
DurableAutocommit(table, pending) == pending

\* database.py line 14, autocommit=False: the rows a transaction has changed
\* and not committed leave the durable table as it was
Durable(table, pending) == table

SyncStartEvents == ConcStartEvents
SyncCloseEvents == ConcCloseEvents

syncFrame ==
  <<lastStats, histVars, concVars, hook, boot, phase, db_stats, minute,
    lifeHistVars, peakVars>>

InitSyncSpec ==
  /\ mgr = NewManager
  /\ InitConc
  /\ InitHook
  /\ lastOp = Op("init", NoEvent, FALSE)
  /\ lastStats = NoStats
  /\ InitHist
  /\ InitLife

\* webhook play_started, at any moment of the sync
SyncStart(event_data) ==
  /\ WindowOpen(mgr)
  /\ mgr' = SessionStarted(mgr, event_data)
  /\ lastOp' = Op("start", NoEvent, event_data.id \in DOMAIN mgr.sessions)
  /\ UNCHANGED <<db_active, tx, syncFrame>>

\* webhook play_closed, at any moment of the sync
SyncClose(event_data) ==
  /\ WindowOpen(mgr)
  /\ mgr' = SessionClosed(mgr, event_data)
  /\ lastOp' = Op("close", NoEvent, event_data.id \in DOMAIN mgr.sessions)
  /\ UNCHANGED <<db_active, tx, syncFrame>>

\* sync_active_sessions, lines 131-133: the snapshot and the new session
SyncCalled ==
  LET got == GetAllSessions(mgr)
  IN /\ tx.pc \in {"idle", "returned"}
     /\ tx.syncs < MaxSyncs
     /\ mgr' = got.mgr
     /\ tx' = [pc |-> "open", snap |-> got.sessions, todo |-> got.sessions,
               pending |-> db_active, before |-> db_active,
               deleted |-> FALSE, ok |-> FALSE, syncs |-> tx.syncs + 1]
     /\ lastOp' = Op("sync_called", NoEvent, TRUE)
     /\ UNCHANGED <<db_active, syncFrame>>

\* sync_active_sessions, line 136: every row is deleted in the transaction
SyncDeletes ==
  /\ tx.pc = "open"
  /\ tx' = [tx EXCEPT !.pc = "adding", !.pending = {}, !.deleted = TRUE]
  /\ db_active' = Durable(db_active, tx'.pending)
  /\ lastOp' = Op("sync_delete", NoEvent, TRUE)
  /\ UNCHANGED <<mgr, syncFrame>>

\* sync_active_sessions, lines 138-150: one turn of the loop
SyncAdds ==
  /\ tx.pc = "adding"
  /\ \E session \in tx.todo :
       tx' = [tx EXCEPT !.todo = @ \ {session},
                        !.pending = @ \cup {ToRow(session)}]
  /\ db_active' = Durable(db_active, tx'.pending)
  /\ lastOp' = Op("sync_add", NoEvent, TRUE)
  /\ UNCHANGED <<mgr, syncFrame>>

\* sync_active_sessions, lines 152-153 and 158-159: the commit, then the
\* return
SyncCommits ==
  /\ tx.pc = "adding"
  /\ tx.todo = {}
  /\ db_active' = tx.pending
  /\ tx' = [tx EXCEPT !.pc = "returned", !.ok = TRUE]
  /\ lastOp' = Op("sync_return", NoEvent, TRUE)
  /\ UNCHANGED <<mgr, syncFrame>>

\* sync_active_sessions, lines 155-159: the delete, an insert or the commit
\* raises; the transaction is rolled back, the failure logged, then the
\* return
SyncFails ==
  /\ tx.pc \in {"open", "adding"}
  /\ db_active' = SyncRolledBack(db_active, tx.snap)
  /\ tx' = [tx EXCEPT !.pc = "returned", !.ok = FALSE]
  /\ lastOp' = Op("sync_return", NoEvent, FALSE)
  /\ UNCHANGED <<mgr, syncFrame>>

NextSync ==
  \/ \E event_data \in SyncStartEvents : SyncStart(event_data)
  \/ \E event_data \in SyncCloseEvents : SyncClose(event_data)
  \/ SyncCalled
  \/ SyncDeletes
  \/ SyncAdds
  \/ SyncCommits
  \/ SyncFails

SpecSync == InitSyncSpec /\ [][NextSync]_vars

(***************************************************************************)
(* SpecUsers: the manager alone as in Spec, fed by sources among which one *)
(* user plays on two servers and two channels.                             *)
(***************************************************************************)
UserSources ==
  Sources \cup
    { [server |-> "b", media |-> "c2", user_id |-> "u1", country |-> "DE",
       proto |-> "hls", user_agent |-> ""] }

UserStartEvents ==
  { Payload(id, src, 100, 1000, 0) : id \in Ids, src \in UserSources }

UserCloseEvents ==
  { Payload(id, src, 50, 1000, 1500) : id \in Ids, src \in UserSources }

InitUsers ==
  /\ mgr = NewManager
  /\ InitConc
  /\ InitHook
  /\ lastOp = Op("init", NoEvent, FALSE)
  /\ lastStats = NoStats
  /\ InitHist
  /\ InitLife

NextUsers ==
  \/ \E event_data \in UserStartEvents : Start(event_data)
  \/ \E event_data \in UserCloseEvents : Close(event_data)
  \/ Flush

SpecUsers == InitUsers /\ [][NextUsers]_vars

(***************************************************************************)
(* properties                                                              *)
(***************************************************************************)
RECURSIVE SumOver(_, _, _)
\* the sum of rows[k][field] over the keys k of S
SumOver(rows, field, S) ==
  IF S = {} THEN 0
  ELSE LET k == CHOOSE k \in S : TRUE
       IN rows[k][field] + SumOver(rows, field, S \ {k})

SumField(rows, field) == SumOver(rows, field, DOMAIN rows)

Dimensions ==
  {"by_server", "by_channel", "by_country", "by_protocol", "by_user_agent"}

\* the accumulator map of the window that feeds a dimension of the result
WindowDim(m, dim) ==
  CASE dim = "by_server" -> m.minute_by_server
    [] dim = "by_channel" -> m.minute_by_channel
    [] dim = "by_country" -> m.minute_by_country
    [] dim = "by_protocol" -> m.minute_by_protocol
    [] dim = "by_user_agent" -> m.minute_by_user_agent

Flushed == lastOp.op = "flush"

\* C1 as stated: in every flush result and for each of the five dimensions,
\* the global sessions_started, sessions_closed, total_bytes and
\* watch_time_seconds each equal the sum of that measure over the dimension's
\* rows (stated for the windows in which no close was earlier than its start,
\* where every watch time is already non-negative).
C1_ReconciliationAsStated ==
  (Flushed /\ ~flushedNeg) =>
    \A dim \in Dimensions :
      \A f \in {"sessions_started", "sessions_closed", "total_bytes",
                "watch_time_seconds"} :
        lastStats.global[f] = SumField(lastStats[dim], f)

\* C1 as amended: in every flush result and for each dimension the global
\* sessions_started, sessions_closed and total_bytes equal the sums over the
\* dimension's rows; the global watch_time_seconds is at least the sum of the
\* rows' watch_time_seconds and exceeds it by less than the number of rows
\* (each row truncates its own milliseconds); the milliseconds accumulated in
\* the window, before the division, do reconcile exactly.
C1_Reconciliation ==
  /\ \A dim \in Dimensions :
       /\ mgr.minute_started = SumField(WindowDim(mgr, dim), "started")
       /\ mgr.minute_closed = SumField(WindowDim(mgr, dim), "closed")
       /\ mgr.minute_bytes = SumField(WindowDim(mgr, dim), "bytes")
       /\ mgr.minute_watch_time_ms =
            SumField(WindowDim(mgr, dim), "watch_time_ms")
  /\ Flushed =>
       \A dim \in Dimensions :
         LET rows == lastStats[dim]
             secs == SumField(rows, "watch_time_seconds")
         IN /\ \A f \in {"sessions_started", "sessions_closed", "total_bytes"} :
                 lastStats.global[f] = SumField(rows, f)
            /\ secs <= lastStats.global.watch_time_seconds
            /\ lastStats.global.watch_time_seconds - secs
                 < Max(1, Cardinality(DOMAIN rows))

\* a flush whose global watch_time_seconds exceeds the sum over the servers
C1_Witness ==
  /\ Flushed
  /\ ~flushedNeg
  /\ lastStats.global.sessions_closed = 2
  /\ lastStats.global.total_bytes # 0
  /\ lastStats.global.watch_time_seconds
       > SumField(lastStats.by_server, "watch_time_seconds")

Measures ==
  {"sessions_started", "sessions_closed", "total_bytes",
   "watch_time_seconds", "unique_users"}

\* C3: a flush that follows a flush with no start, close or restore in between
\* returns sessions_started, sessions_closed, total_bytes, watch_time_seconds
\* and unique_users all 0 in the global row and in every dimension row, and a
\* global peak_concurrent equal to the registry size at the first flush's
\* reset.
C3_ResetCompleteness ==
  (Flushed /\ prevResetSize >= 0) =>
    /\ \A f \in Measures : lastStats.global[f] = 0
    /\ \A dim \in Dimensions : \A k \in DOMAIN lastStats[dim] :
         \A f \in Measures : lastStats[dim][k][f] = 0
    /\ lastStats.global.peak_concurrent = prevResetSize

\* a second flush in a row, over a registry of two live sessions
C3_Witness ==
  /\ Flushed
  /\ prevResetSize = 2
  /\ DOMAIN lastStats.by_server # {}

\* the accumulator maps d (before) and e (after) differ by one close applied
\* to the accumulator of key: bytes and watch added, nothing else touched
OneClosed(d, e, key, bytes, watch_time_ms) ==
  LET before == IF key \in DOMAIN d THEN d[key] ELSE NewDimensionStats
  IN /\ DOMAIN e = DOMAIN d \cup {key}
     /\ \A k \in DOMAIN d \ {key} : e[k] = d[k]
     /\ e[key].closed = before.closed + 1
     /\ e[key].started = before.started
     /\ e[key].bytes = before.bytes + bytes
     /\ e[key].watch_time_ms = before.watch_time_ms + watch_time_ms

\* C4: a close whose id is not in the registry adds 1 to the global
\* sessions_closed, adds the event's raw bytes to the global total_bytes and to
\* one accumulator of each dimension, keyed by the event's own fields, with
\* zero watch time, and leaves the registry unchanged.
C4_UnmatchedClose ==
  [][ (lastOp'.op = "close" /\ ~lastOp'.found) =>
        LET e == lastOp'.ev
        IN /\ mgr'.sessions = mgr.sessions
           /\ Size(mgr'.sessions) = Size(mgr.sessions)
           /\ mgr'.minute_closed = mgr.minute_closed + 1
           /\ mgr'.minute_started = mgr.minute_started
           /\ mgr'.minute_bytes = mgr.minute_bytes + e.bytes
           /\ mgr'.minute_watch_time_ms = mgr.minute_watch_time_ms
           /\ OneClosed(mgr.minute_by_server, mgr'.minute_by_server,
                        e.server, e.bytes, 0)
           /\ OneClosed(mgr.minute_by_channel, mgr'.minute_by_channel,
                        e.media, e.bytes, 0)
           /\ OneClosed(mgr.minute_by_country, mgr'.minute_by_country,
                        IF e.country = "" THEN "XX" ELSE e.country, e.bytes, 0)
           /\ OneClosed(mgr.minute_by_protocol, mgr'.minute_by_protocol,
                        IF e.proto = "" THEN "unknown" ELSE e.proto, e.bytes, 0)
           /\ OneClosed(mgr.minute_by_user_agent, mgr'.minute_by_user_agent,
                        IF e.user_agent = "Android App" THEN "android"
                        ELSE "other", e.bytes, 0)
    ]_vars

\* a close of an unknown id, carrying bytes, beside a live session whose
\* server differs from the event's
C4_Witness ==
  /\ lastOp.op = "close"
  /\ ~lastOp.found
  /\ lastOp.ev.bytes > 0
  /\ \E id \in DOMAIN mgr.sessions : mgr.sessions[id].server # lastOp.ev.server
  /\ mgr.minute_bytes >= lastOp.ev.bytes

\* C5 as stated: on a manager constructed empty, after N start events and no
\* close, a flush reports current_concurrent = N and peak_concurrent >= N.
C5_ConcurrencyAsStated ==
  (Flushed /\ startsOnly >= 0) =>
    /\ lastStats.global.current_concurrent = startsOnly
    /\ lastStats.global.peak_concurrent >= startsOnly

\* C5 as amended: on a manager constructed empty, after N start events with
\* pairwise distinct ids and no close, a flush reports current_concurrent = N
\* and peak_concurrent >= N; in general, with D the number of distinct ids
\* among the N starts, it reports current_concurrent = D and
\* peak_concurrent >= D.
C5_Concurrency ==
  (Flushed /\ startsOnly >= 0) =>
    /\ lastStats.global.current_concurrent = Cardinality(idsStarted)
    /\ lastStats.global.peak_concurrent >= Cardinality(idsStarted)
    /\ Cardinality(idsStarted) <= startsOnly

\* a flush after two starts of distinct ids and nothing else
C5_Witness ==
  /\ Flushed
  /\ startsOnly = 2
  /\ Cardinality(idsStarted) = 2
  /\ lastStats.global.current_concurrent = 2

\* a session without the wall clock of its last persistence touch
Identity(session) ==
  [id |-> session.id, server |-> session.server, media |-> session.media,
   user_id |-> session.user_id, country |-> session.country,
   proto |-> session.proto, user_agent_class |-> session.user_agent_class,
   bytes |-> session.bytes, opened_at |-> session.opened_at]

Registry(m) == { m.sessions[id] : id \in DOMAIN m.sessions }

Restarted == lastOp.op = "boot" /\ lastOp.found

\* C6 as stated: after a crash and a restart that restores from the last
\* durable backup, every session that was in the registry when the process
\* crashed is in the registry.
C6_NoSessionLostAsStated ==
  Restarted => DOMAIN regAtCrash \subseteq DOMAIN mgr.sessions

\* C6 as amended: after a crash at any moment and a restart whose
\* restore_active_sessions reads the table, the registry holds exactly the
\* sessions that get_all_sessions gave the last sync_active_sessions that
\* committed (none if no sync committed), each with the fields it had then
\* and updated_at set to the sync's clock; so a session of the crashed
\* registry survives if and only if its id was in that backup.
C6_RestoreLastBackup ==
  Restarted =>
    /\ { Identity(s) : s \in Registry(mgr) }
         = { Identity(s) : s \in syncedSnap }
    /\ \A id \in DOMAIN mgr.sessions : mgr.sessions[id].id = id
    /\ \A id \in DOMAIN regAtCrash :
         id \in DOMAIN mgr.sessions <=> \E s \in syncedSnap : s.id = id

\* a restart that brings back one session of the backup while another
\* session of the crashed registry, started after the backup, is gone
C6_Witness ==
  /\ Restarted
  /\ \E id \in DOMAIN regAtCrash : id \in DOMAIN mgr.sessions
  /\ \E id \in DOMAIN regAtCrash : id \notin DOMAIN mgr.sessions

\* the sessions per value of an attribute, counted on a set of sessions
CountBy(sessions, attribute, value) ==
  Cardinality({ s \in sessions : s[attribute] = value })

DimAttribute(dim) ==
  CASE dim = "by_server" -> "server"
    [] dim = "by_channel" -> "media"
    [] dim = "by_country" -> "country"
    [] dim = "by_protocol" -> "proto"
    [] dim = "by_user_agent" -> "user_agent_class"

\* C7: restore_sessions(R) applied to a freshly constructed manager, R a list
\* get_all_sessions returned (through the table), leaves the registry equal to
\* R, the global peak counter equal to |R| and every window counter zero; the
\* flush that follows reports current_concurrent = |R| and, for every
\* dimension value v of R, a row with peak_concurrent the number of sessions
\* of R with value v and sessions_started = sessions_closed = 0.
C7_RestoreRoundTrip ==
  /\ Restarted =>
       /\ Registry(mgr) = restored
       /\ DOMAIN mgr.sessions = { s.id : s \in restored }
       /\ mgr.minute_peak_concurrent = Cardinality(restored)
       /\ mgr.minute_started = 0
       /\ mgr.minute_closed = 0
       /\ mgr.minute_bytes = 0
       /\ mgr.minute_watch_time_ms = 0
       /\ mgr.minute_unique_users = {}
       /\ \A dim \in Dimensions : WindowDim(mgr, dim) = EmptyDict
  /\ (Flushed /\ flushedFresh) =>
       /\ lastStats.global.current_concurrent = Cardinality(restored)
       /\ lastStats.global.peak_concurrent = Cardinality(restored)
       /\ lastStats.global.sessions_started = 0
       /\ lastStats.global.sessions_closed = 0
       /\ \A dim \in Dimensions :
            /\ DOMAIN lastStats[dim]
                 = { s[DimAttribute(dim)] : s \in restored }
            /\ \A v \in DOMAIN lastStats[dim] :
                 /\ lastStats[dim][v].peak_concurrent
                      = CountBy(restored, DimAttribute(dim), v)
                 /\ lastStats[dim][v].sessions_started = 0
                 /\ lastStats[dim][v].sessions_closed = 0

\* the flush that follows the restore of two sessions
C7_Witness ==
  /\ Flushed
  /\ flushedFresh
  /\ Cardinality(restored) = 2
  /\ Cardinality(DOMAIN lastStats.by_server) = 2

\* C8: get_all_sessions, and sync_active_sessions which calls it, leave the
\* window counters, the accumulator maps, the peak counter and the registry
\* unchanged, so the flush after a backup returns what it would have returned
\* without it.
C8_BackupReadOnly ==
  [][ lastOp'.op \in {"sync", "active_count"} =>
        /\ mgr' = mgr
        /\ GetAndResetMinuteStats(mgr').stats = GetAndResetMinuteStats(mgr).stats
    ]_vars

\* a committed backup taken in the middle of a window with a live session
C8_Witness ==
  /\ lastOp.op = "sync"
  /\ lastOp.found
  /\ mgr.minute_started >= 1
  /\ mgr.minute_closed >= 1
  /\ Size(mgr.sessions) >= 1
  /\ db_active # {}

\* the minute has a row in one of the stats tables
Stored(db, m) ==
  \/ m \in DOMAIN db.global
  \/ \E dim \in Dimensions : \E key \in DOMAIN db[dim] : key[1] = m

\* C10: when the database write of run_aggregation fails after
\* get_and_reset_minute_stats returned, the window stays reset (the flushed
\* values are not added back), nothing of that result is written, then or
\* later, and the next flush reports only the events applied after the reset.
C10_FailedWriteIsLoss ==
  /\ [][ (lastOp'.op = "flush" /\ ~lastOp'.found) =>
           /\ mgr'.minute_started = 0
           /\ mgr'.minute_closed = 0
           /\ mgr'.minute_bytes = 0
           /\ mgr'.minute_watch_time_ms = 0
           /\ mgr'.minute_unique_users = {}
           /\ \A dim \in Dimensions : WindowDim(mgr', dim) = EmptyDict
           /\ mgr'.sessions = mgr.sessions
           /\ db_stats' = db_stats
       ]_vars
  /\ [][ lastOp'.op = "flush" =>
           /\ lastStats'.global.sessions_started = winStarts
           /\ lastStats'.global.sessions_closed = winCloses
       ]_vars
  /\ [](\A m \in lostMinutes : ~Stored(db_stats, m))

\* minute 0 was flushed and its write failed; minute 1 was flushed with a
\* start in it and written
C10_Witness ==
  /\ Flushed
  /\ lastOp.found
  /\ lostMinutes = {0}
  /\ lastStats.global.sessions_started >= 1
  /\ Stored(db_stats, 1)
  /\ ~Stored(db_stats, 0)

\* the counts of a flush result agree between the global row and the rows
\* of every dimension, and its peak is not below its current concurrency
Whole(stats) ==
  /\ \A dim \in Dimensions :
       /\ stats.global.sessions_started
            = SumField(stats[dim], "sessions_started")
       /\ stats.global.sessions_closed
            = SumField(stats[dim], "sessions_closed")
       /\ stats.global.total_bytes = SumField(stats[dim], "total_bytes")
  /\ stats.global.peak_concurrent >= stats.global.current_concurrent

\* thread t returns from get_and_reset_minute_stats in this step
FlushReturns(t) ==
  /\ calls[t].op = "flush"
  /\ calls[t].pc = "locked"
  /\ calls'[t].pc = "idle"

\* C2: with start, close and flush calls running in concurrent threads, when
\* a get_and_reset_minute_stats call returns, its result and the results of
\* the flushes before it together hold every session_started and
\* session_closed call that had returned when the flush call began, each
\* with its whole effect (global row and dimension rows), and hold no call
\* that has not begun yet.
C2_FlushLinearization ==
  [][ \A t \in Threads :
        FlushReturns(t) =>
          /\ calls[t].seenStarts <= conc'.flushedStarted
          /\ calls[t].seenCloses <= conc'.flushedClosed
          /\ conc'.flushedStarted <= conc'.startsBegun
          /\ conc'.flushedClosed <= conc'.closesBegun
          /\ Whole(calls[t].stats)
    ]_vars

\* a flush has returned a start that had returned before the flush began,
\* while the other thread is inside a start call
C2_Witness ==
  /\ lastOp.op = "flush_return"
  /\ lastStats.global.sessions_started >= 1
  /\ conc.startsReturned >= 1
  /\ conc.flushedStarted = conc.startsReturned
  /\ \E t \in Threads : calls[t].op = "start" /\ calls[t].pc = "called"

\* the window and the registry carry no half-applied operation
Settled(m) ==
  /\ \A dim \in Dimensions :
       /\ m.minute_started = SumField(WindowDim(m, dim), "started")
       /\ m.minute_closed = SumField(WindowDim(m, dim), "closed")
       /\ m.minute_bytes = SumField(WindowDim(m, dim), "bytes")
  /\ m.minute_peak_concurrent >= Size(m.sessions)

\* C9: session_started, session_closed, get_and_reset_minute_stats,
\* get_all_sessions and restore_sessions touch the registry and the window
\* only while they hold the one lock of the manager: a thread between the
\* two halves of a method holds the lock, at most one thread is there, the
\* state a method finds when it enters carries no half-applied start, close,
\* reset or restore, and no flush result is torn.
C9_SingleExclusionDomain ==
  /\ \A t \in Threads : calls[t].pc = "locked" => lock = t
  /\ \A t, u \in Threads :
       (calls[t].pc = "locked" /\ calls[u].pc = "locked") => t = u
  /\ lock = "free" => Settled(mgr)
  /\ \A t \in Threads :
       (calls[t].op = "flush" /\ calls[t].pc = "locked") =>
         Whole(calls[t].stats)
  /\ lastOp.op = "flush_return" => Whole(lastStats)

\* one thread is between the two halves of a start, the window half
\* applied, while the other thread has called flush and waits for the lock
C9_Witness ==
  /\ \E t \in Threads :
       /\ calls[t].op = "start"
       /\ calls[t].pc = "locked"
       /\ lock = t
  /\ \E u \in Threads : calls[u].op = "flush" /\ calls[u].pc = "called"
  /\ ~Settled(mgr)

\* the rows of a result are the rows stored under the minute, and every row
\* of another key is as it was
WrittenOver(before, after, m, stats) ==
  /\ DOMAIN after.global = DOMAIN before.global \cup {m}
  /\ after.global[m] = MeasureColumns(stats.global)
  /\ \A k \in DOMAIN before.global \ {m} : after.global[k] = before.global[k]
  /\ \A dim \in Dimensions :
       /\ DOMAIN after[dim]
            = DOMAIN before[dim] \cup { <<m, v>> : v \in DOMAIN stats[dim] }
       /\ \A v \in DOMAIN stats[dim] :
            after[dim][<<m, v>>] = MeasureColumns(stats[dim][v])
       /\ \A k \in DOMAIN before[dim] :
            (k[1] # m \/ k[2] \notin DOMAIN stats[dim]) =>
              after[dim][k] = before[dim][k]

\* C11: writing a flush result for a minute through write_global_stats and
\* write_dimension_stats inserts its rows under the minute key; writing the
\* same result for the same minute again leaves the tables identical; and
\* writing another result for that minute overwrites every measure column of
\* the rows it collides with.
C11_IdempotentWrite ==
  [][ (lastOp'.op = "flush" /\ lastOp'.found) =>
        LET stats == lastStats'
            once == WriteStats(db_stats, minute, stats)
            other == MinuteStats(mgr')
        IN /\ db_stats' = once
           /\ WrittenOver(db_stats, once, minute, stats)
           /\ WriteStats(once, minute, stats) = once
           /\ WrittenOver(once, WriteStats(once, minute, other), minute, other)
    ]_vars

\* a committed write of a result with a start in it, and a server row
C11_Witness ==
  /\ Flushed
  /\ lastOp.found
  /\ lastStats.global.sessions_started >= 1
  /\ minute >= 1
  /\ db_stats.global[minute - 1].sessions_started >= 1
  /\ \E k \in DOMAIN db_stats.by_server : k[1] = minute - 1

\* the request served was a list or a dict and its response is built
Responded == hook.pc = "done" /\ hook.status # "error"

\* C12: for a request body of k events, every event is attempted whether or
\* not earlier ones failed (an event that fails validation or whose handler
\* raises is an error, every other one is processed), the response has
\* processed + errors = k, and its status is "ok" exactly when errors = 0
\* and "partial" otherwise.
C12_PerEventIsolation ==
  Responded =>
    LET k == Len(hook.events)
    IN /\ Len(hook.outcomes) = k
       /\ \A i \in 1..k :
            hook.outcomes[i] =
              (Validates(hook.events[i]) /\ ~hook.events[i].bytes_is_str)
       /\ hook.processed = Cardinality({ i \in 1..k : hook.outcomes[i] })
       /\ hook.errors = Cardinality({ i \in 1..k : ~hook.outcomes[i] })
       /\ hook.processed + hook.errors = k
       /\ hook.status = "ok" <=> hook.errors = 0
       /\ hook.status = "partial" <=> hook.errors # 0

\* a batch whose first event fails validation and whose second event is a
\* start that is applied
C12_Witness ==
  /\ Responded
  /\ Len(hook.events) = 2
  /\ ~Validates(hook.events[1])
  /\ hook.events[2].kind = "play_started"
  /\ hook.processed = 1
  /\ hook.errors = 1
  /\ hook.status = "partial"
  /\ hook.events[2].data.id \in DOMAIN mgr.sessions

\* the window of a manager is as constructed
WindowEmpty(m) ==
  /\ m.minute_started = 0
  /\ m.minute_closed = 0
  /\ m.minute_bytes = 0
  /\ m.minute_watch_time_ms = 0
  /\ m.minute_unique_users = {}
  /\ \A dim \in Dimensions : WindowDim(m, dim) = EmptyDict

\* C13: in every process restore_active_sessions has returned (having
\* restored the rows, or having failed and logged) before the aggregation
\* and session-sync jobs are scheduled or the scheduler is started and before
\* the application serves a webhook event: no start, close, flush or backup
\* touches the manager before that, and a restore that succeeds finds the
\* manager as constructed and leaves the registry equal to the table's rows.
C13_StartupOrdering ==
  /\ ~boot.touchedEarly
  /\ (boot.jobs # {} \/ boot.running \/ boot.serving
        \/ boot.aggregating \/ boot.syncing) => boot.restoreReturned
  /\ (lastOp.op = "restore" /\ lastOp.found) =>
       /\ Registry(mgr) = { FromRow(row) : row \in db_active }
       /\ WindowEmpty(mgr)

\* the second process serves: its restore brought back a session of the
\* first process, and a start of another session has been applied after it
C13_Witness ==
  /\ boot.boots = 2
  /\ boot.serving
  /\ boot.restoreOk
  /\ lastOp.op = "start"
  /\ db_active # {}
  /\ \A row \in db_active : row.id \in DOMAIN mgr.sessions
  /\ Size(mgr.sessions) = 2

\* C14: on shutdown the scheduler is stopped once no job is running, then
\* one final sync_active_sessions runs, then the process exits: at exit
\* exactly one final sync has run, no scheduled flush or sync began or ended
\* after it, and when it committed the active_sessions table holds exactly
\* the rows of the registry at exit.
C14_ShutdownOrdering ==
  /\ boot.finalSyncs <= 1
  /\ ~boot.jobAfterFinal
  /\ boot.finalSyncs = 1 =>
       ~boot.running /\ ~boot.aggregating /\ ~boot.syncing
  /\ lastOp.op = "exit" =>
       /\ boot.finalSyncs = 1
       /\ boot.finalOk =>
            db_active = { ToRow(session) : session \in boot.regAtExit }

\* the second process exits after a committed final sync of a registry of
\* one session
C14_Witness ==
  /\ lastOp.op = "exit"
  /\ boot.finalOk
  /\ boot.boots = 2
  /\ Cardinality(boot.regAtExit) = 1
  /\ Cardinality(db_active) = 1

\* C15: the global peak_concurrent a flush returns is the largest size the
\* registry has had at any instant since the previous reset (or since the
\* restore or the construction of the manager), the size right after that
\* reset included, for any interleaving of starts and closes; the peak
\* counter holds that maximum at every instant in between.
C15_PeakIsWindowMaximum ==
  /\ mgr.minute_peak_concurrent = winMax
  /\ lastOp.op \in {"flush", "job_flush"} =>
       lastStats.global.peak_concurrent = flushedMax

\* a flush of a window in which the registry, holding one session at the
\* reset or restore before, grew to two sessions and shrank again
C15_Witness ==
  /\ lastOp.op = "job_flush"
  /\ boot.restoreOk
  /\ flushedMax = 2
  /\ lastStats.global.current_concurrent = 1
  /\ lastStats.global.sessions_started = 1
  /\ lastStats.global.sessions_closed = 1

\* the watch time a matched close is to add, clamped at zero
ClampedWatchTime(session, event_data) ==
  IF event_data.closed_at # 0
  THEN Max(0, event_data.closed_at - session.opened_at)
  ELSE 0

\* C16 as stated: a session_closed that finds its session adds
\* max(0, closed_at - opened_at) when closed_at is present, and 0 otherwise,
\* to the global watch time and to the accumulator of each dimension, so the
\* accumulated watch time is never negative.
C16_WatchTimeClampedAsStated ==
  /\ [][ (lastOp'.op = "close" /\ lastOp'.found) =>
           LET event_data == lastOp'.ev
               session == mgr.sessions[event_data.id]
               w == ClampedWatchTime(session, event_data)
           IN /\ mgr'.minute_watch_time_ms = mgr.minute_watch_time_ms + w
              /\ \A dim \in Dimensions :
                   SumField(WindowDim(mgr', dim), "watch_time_ms")
                     = SumField(WindowDim(mgr, dim), "watch_time_ms") + w
       ]_vars
  /\ [](mgr.minute_watch_time_ms >= 0)

\* the value an accumulator map holds for a key, zero if it has none
AccField(rows, key, field) ==
  IF key \in DOMAIN rows THEN rows[key][field] ELSE 0

\* C17: a session_closed that finds its session removes it from the
\* registry, adds bytes_delta = event bytes - session.bytes, uncorrected, to
\* the global byte counter, and in each dimension applies the closed mutation
\* (one more close, bytes_delta more bytes, the session's user) to the one
\* accumulator keyed by the value recorded on the session at its start,
\* leaving every other accumulator as it was.
C17_MatchedCloseAttribution ==
  [][ (lastOp'.op = "close" /\ lastOp'.found) =>
        LET event_data == lastOp'.ev
            session == mgr.sessions[event_data.id]
            bytes_delta == event_data.bytes - session.bytes
        IN /\ DOMAIN mgr'.sessions = DOMAIN mgr.sessions \ {event_data.id}
           /\ \A id \in DOMAIN mgr'.sessions :
                mgr'.sessions[id] = mgr.sessions[id]
           /\ mgr'.minute_closed = mgr.minute_closed + 1
           /\ mgr'.minute_bytes = mgr.minute_bytes + bytes_delta
           /\ \A dim \in Dimensions :
                LET key == session[DimAttribute(dim)]
                    old == WindowDim(mgr, dim)
                    new == WindowDim(mgr', dim)
                IN /\ DOMAIN new = DOMAIN old \cup {key}
                   /\ new[key].closed = AccField(old, key, "closed") + 1
                   /\ new[key].bytes
                        = AccField(old, key, "bytes") + bytes_delta
                   /\ new[key].started = AccField(old, key, "started")
                   /\ session.user_id \in new[key].unique_users
                   /\ \A k \in DOMAIN old \ {key} : new[k] = old[k]
    ]_vars

\* a close found its session; the event names another server than the
\* session, and reports fewer bytes than the session had at its start
C17_Witness ==
  /\ lastOp.op = "close"
  /\ lastOp.found
  /\ mgr.minute_bytes < 0
  /\ lastOp.ev.server \notin DOMAIN mgr.minute_by_server
  /\ mgr.minute_by_server # EmptyDict

\* C18: a session_started whose id is already in the registry replaces the
\* stored Session with the one built from the new event, leaves the size of
\* the registry and every other session unchanged, and still adds exactly 1
\* to the global sessions_started and to the started count of one accumulator
\* per dimension, the one keyed by the new session's value.
C18_DuplicateStartOverwrites ==
  [][ (lastOp'.op = "start" /\ lastOp'.found) =>
        LET event_data == lastOp'.ev
            session == NewSession(event_data)
        IN /\ event_data.id \in DOMAIN mgr.sessions
           /\ mgr'.sessions[event_data.id] = session
           /\ DOMAIN mgr'.sessions = DOMAIN mgr.sessions
           /\ \A id \in DOMAIN mgr.sessions \ {event_data.id} :
                mgr'.sessions[id] = mgr.sessions[id]
           /\ mgr'.minute_started = mgr.minute_started + 1
           /\ \A dim \in Dimensions :
                LET key == session[DimAttribute(dim)]
                    old == WindowDim(mgr, dim)
                    new == WindowDim(mgr', dim)
                IN /\ DOMAIN new = DOMAIN old \cup {key}
                   /\ new[key].started = AccField(old, key, "started") + 1
                   /\ SumField(new, "started") = SumField(old, "started") + 1
                   /\ \A k \in DOMAIN old \ {key} : new[k] = old[k]
    ]_vars

\* the second start of an id came from another server with another byte
\* count: one session, two starts counted, on two servers
C18_Witness ==
  /\ lastOp.op = "start"
  /\ lastOp.found
  /\ Size(mgr.sessions) = 1
  /\ mgr.minute_started = 2
  /\ Cardinality(DOMAIN mgr.minute_by_server) = 2
  /\ mgr.sessions[lastOp.ev.id].server = lastOp.ev.server

\* C19: in a flush result and for each of the five dimensions, the row keys
\* are exactly the keys of the dimension's accumulator map together with the
\* dimension values of the sessions in the registry, and the peak_concurrent
\* of each row is the number of sessions in the registry at the flush that
\* have that value, 0 when there is none.
C19_DimensionRows ==
  [][ lastOp'.op = "flush" =>
        \A dim \in Dimensions :
          LET live == Registry(mgr)
              rows == lastStats'[dim]
          IN /\ DOMAIN rows
                  = DOMAIN WindowDim(mgr, dim)
                      \cup { session[DimAttribute(dim)] : session \in live }
             /\ \A v \in DOMAIN rows :
                  rows[v].peak_concurrent
                    = CountBy(live, DimAttribute(dim), v)
    ]_vars

\* a flush with a server row that only a live session gave, and a server
\* row that only an accumulator gave, its peak_concurrent 0
C19_Witness ==
  /\ Flushed
  /\ \E v \in DOMAIN lastStats.by_server :
       /\ lastStats.by_server[v].peak_concurrent >= 1
       /\ lastStats.by_server[v].sessions_started = 0
       /\ lastStats.by_server[v].sessions_closed = 0
  /\ \E v \in DOMAIN lastStats.by_server :
       /\ lastStats.by_server[v].peak_concurrent = 0
       /\ lastStats.by_server[v].sessions_closed >= 1

\* milliseconds to seconds, the fraction dropped toward zero
TruncSeconds(ms) ==
  IF ms >= 0 THEN ms \div 1000 ELSE 0 - ((0 - ms) \div 1000)

\* secs is the largest whole number of seconds not above ms milliseconds
FloorSeconds(ms, secs) == secs * 1000 <= ms /\ ms < secs * 1000 + 1000

Applied(op, returned) ==
  returned
    + Cardinality({ t \in Threads :
                      calls[t].pc = "locked" /\ calls[t].op = op })

\* C21: under any interleaving of concurrent session_started, session_closed
\* and get_and_reset_minute_stats calls, the sessions_started (sessions_closed)
\* of all flush results returned so far plus the current window counter is the
\* number of start (close) events applied, and a flush returns exactly the
\* counters its reset clears: no event is lost or counted in two flushes.
C21_ExactlyOnceExport ==
  /\ [](conc.flushedStarted + mgr.minute_started
          = Applied("start", conc.startsReturned))
  /\ [](conc.flushedClosed + mgr.minute_closed
          = Applied("close", conc.closesReturned))
  /\ [][ lastOp'.op = "flush_return" =>
           /\ lastStats'.global.sessions_started = mgr.minute_started
           /\ lastStats'.global.sessions_closed = mgr.minute_closed
           /\ mgr'.minute_started = 0
           /\ mgr'.minute_closed = 0
       ]_vars

\* a flush has returned a start, a close is inside its with block and
\* another thread's flush waits for the lock
C21_Witness ==
  /\ conc.flushedStarted = 1
  /\ mgr.minute_closed = 1
  /\ \E t \in Threads : calls[t].pc = "locked" /\ calls[t].op = "close"
  /\ \E t \in Threads : calls[t].pc = "called" /\ calls[t].op = "flush"

\* C22: on a manager constructed empty and never restored, an id is in the
\* registry exactly when the most recent start or close applied for that id
\* was a start, and a flush or a backup leaves the registry as it was.
C22_RegistryMembership ==
  /\ [](DOMAIN mgr.sessions = startedLast)
  /\ [][ lastOp'.op \in {"flush", "backup"} =>
           mgr'.sessions = mgr.sessions ]_vars

\* s1 was started and then closed, s2 was started and is live, and a flush
\* followed
C22_Witness ==
  /\ Flushed
  /\ lastStats.global.sessions_closed >= 1
  /\ lastStats.global.sessions_started >= 2
  /\ startedLast = {"s2"}
  /\ DOMAIN mgr.sessions = {"s2"}

\* C23 as stated: whenever receive_webhook counts an event as an error, the
\* registry and every window counter and accumulator are as they were before
\* that event; a close never removes the session from the registry without
\* also counting the close.
C23_FailedEventChangesNothing ==
  [][ (hook.pc = "loop" /\ hook'.pc = "loop"
         /\ hook'.errors = hook.errors + 1)
        => mgr' = mgr ]_vars

\* C24: when sync_active_sessions returns, the durable active_sessions table
\* is, after a commit, exactly one row per session of the snapshot its
\* get_all_sessions call took and, after any failure of the delete, an
\* insert or the commit, exactly what it was before the call; while the call
\* runs the durable table stays what it was, never empty or partly written.
C24_BackupAtomicReplace ==
  /\ [][ lastOp'.op = "sync_return" =>
           IF tx'.ok
           THEN /\ db_active' = SyncTable(tx.before, tx.snap)
                /\ { Identity(row) : row \in db_active' }
                     = { Identity(session) : session \in tx.snap }
                /\ Cardinality(db_active') = Cardinality(tx.snap)
           ELSE db_active' = tx.before ]_vars
  /\ [](tx.pc \in {"open", "adding"} => db_active = tx.before)

\* a sync that failed after its delete has returned: the table still holds
\* the one row of the earlier sync, while the snapshot had two sessions
C24_Witness ==
  /\ lastOp.op = "sync_return"
  /\ ~tx.ok
  /\ tx.deleted
  /\ Cardinality(tx.snap) = 2
  /\ Cardinality(db_active) = 1
  /\ db_active = tx.before

\* C25: in every flush result and for each of the five dimensions, the sum
\* of peak_concurrent over the rows of the dimension is the global
\* current_concurrent, which is the size of the registry at the flush.
C25_ConcurrencyPartition ==
  Flushed =>
    /\ lastStats.global.current_concurrent = Size(mgr.sessions)
    /\ \A dim \in Dimensions :
         SumField(lastStats[dim], "peak_concurrent")
           = lastStats.global.current_concurrent

\* a flush with two live sessions on one server and a row of another server
\* that only an unmatched close touched
C25_Witness ==
  /\ Flushed
  /\ lastStats.global.current_concurrent = 2
  /\ \E v, w \in DOMAIN lastStats.by_server :
       /\ lastStats.by_server[v].peak_concurrent = 2
       /\ lastStats.by_server[w].peak_concurrent = 0
       /\ lastStats.by_server[w].sessions_closed = 1

\* the users recorded by the accumulators of one dimension of the window
DimUsers(m, dim) ==
  UNION { WindowDim(m, dim)[v].unique_users : v \in DOMAIN WindowDim(m, dim) }

\* C26: in every reachable state and for each of the five dimensions, the
\* union of the unique_users sets of the dimension's accumulators is the
\* global unique-user set of the window; and in every flush result the global
\* unique_users is at least the unique_users of every row of the dimension
\* and at most their sum.
C26_UniqueUserConsistency ==
  /\ \A dim \in Dimensions : DimUsers(mgr, dim) = mgr.minute_unique_users
  /\ Flushed =>
       \A dim \in Dimensions :
         /\ \A v \in DOMAIN lastStats[dim] :
              lastStats[dim][v].unique_users <= lastStats.global.unique_users
         /\ lastStats.global.unique_users
              <= SumField(lastStats[dim], "unique_users")

\* a flush of a window in which one user played on two servers and another
\* user on one of them: two users globally, one server row with both, three
\* over the server rows
C26_Witness ==
  /\ Flushed
  /\ lastStats.global.unique_users = 2
  /\ SumField(lastStats.by_server, "unique_users") = 3
  /\ \E v \in DOMAIN lastStats.by_server :
       lastStats.by_server[v].unique_users = 2
  /\ \E v \in DOMAIN lastStats.by_server :
       lastStats.by_server[v].unique_users = 1

====
